---- MODULE Spec2Model ----
(***************************************************************************)
(* Symbolic execution engine of the analyzer                               *)
(* (src/new_analyzer/src/symbolic_execution.rs).                           *)
(*                                                                         *)
(* The engine explores one slice at a time: execute_slice pops a Work      *)
(* from the work-list, execute_block runs the path instruction by          *)
(* instruction through the transfer functions until the path stops, and    *)
(* the result is classified into one MetaData counter.  Every transfer     *)
(* function ends in a tail call of execute_instr / execute_block, so the   *)
(* recursion is a loop over "the instruction handed to execute_instr":     *)
(* one action of the model is one call of execute_instr together with the  *)
(* transfer function it dispatches to.                                     *)
(***************************************************************************)
EXTENDS Integers, Sequences, FiniteSets, TLC

\* ------------------------------------------------------------------------
\* Bounds of the model
\* ------------------------------------------------------------------------
MaxTracePerSlice == 2
MaxExploredTracePerSlice == 3
MaxNodePerTrace == 10
MaxSlices == 2

\* ------------------------------------------------------------------------
\* Option<T>: None is the empty sequence, Some(x) the one-element sequence
\* ------------------------------------------------------------------------
None == <<>>

Some(x) == <<x>>

IsSome(o) == Len(o) = 1

Unwrap(o) == o[1]

EmptyMap == [x \in {} |-> 0]

MapInsert(m, k, v) == [x \in (DOMAIN m) \cup {k} |-> IF x = k THEN v ELSE m[x]]

\* ------------------------------------------------------------------------
\* The IR view (llir): a slice's functions, blocks and instructions.
\* An instruction value is its position <<block, index>>.
\* ------------------------------------------------------------------------
I(op) == [op |-> op, name |-> None, nargs |-> 0, t |-> 0, e |-> 0,
          cases |-> <<>>, val |-> FALSE, inc |-> <<>>]

CallI(n, k) == [I("Call") EXCEPT !.name = Some(n), !.nargs = k]

RetI == I("Return")

RetValI == [I("Return") EXCEPT !.val = TRUE]

BrI(t) == [I("Br") EXCEPT !.t = t]

CondBrI(t, e) == [I("CondBr") EXCEPT !.t = t, !.e = e]

SwitchI(d, cs) == [I("Switch") EXCEPT !.t = d, !.cases = cs]

PhiI(inc) == [I("Phi") EXCEPT !.inc = inc]

EntryOnly == [entry |-> Some(1), target |-> None]

WithHelper == [entry |-> Some(1), helper |-> Some(2), target |-> None]

\* The slices the engine is run on.  blocks[b] is the instruction list of
\* block b; first[f] is f.first_block() (None: declaration only); instr is
\* slice.instr, the target call; functions is slice.functions.
Slices == <<
    \* 1: call target; ret
    [blocks |-> << <<CallI("target", 1), RetI>> >>,
     first |-> EntryOnly, num_params |-> 1, instr |-> <<1, 1>>, functions |-> {"entry"}],
    \* 2: diamond, the target call sits on the then side
    [blocks |-> << <<I("ICmp"), CondBrI(2, 3)>>, <<CallI("target", 0), BrI(4)>>,
                   <<CallI("target", 0), BrI(4)>>, <<RetI>> >>,
     first |-> EntryOnly, num_params |-> 0, instr |-> <<2, 1>>, functions |-> {"entry"}],
    \* 3: the target call sits in a block that branches back to itself
    [blocks |-> << <<CallI("target", 0), CondBrI(1, 2)>>, <<RetI>> >>,
     first |-> EntryOnly, num_params |-> 0, instr |-> <<1, 1>>, functions |-> {"entry"}],
    \* 4: a self-loop whose exit edge leads back into the loop
    [blocks |-> << <<CallI("target", 0), BrI(2)>>, <<CondBrI(2, 3)>>, <<BrI(2)>> >>,
     first |-> EntryOnly, num_params |-> 0, instr |-> <<1, 1>>, functions |-> {"entry"}],
    \* 5: an unconditional self-loop
    [blocks |-> << <<CallI("target", 0), BrI(1)>> >>,
     first |-> EntryOnly, num_params |-> 0, instr |-> <<1, 1>>, functions |-> {"entry"}],
    \* 6: a switch with two cases that lead to the same block
    [blocks |-> << <<CallI("target", 0), SwitchI(3, <<2, 2>>)>>, <<RetI>>,
                   <<I("Unreachable")>> >>,
     first |-> EntryOnly, num_params |-> 0, instr |-> <<1, 1>>, functions |-> {"entry"}],
    \* 7: the target call sits in a helper the engine descends into
    [blocks |-> << <<CallI("helper", 1), RetI>>, <<CallI("target", 0), RetValI>> >>,
     first |-> WithHelper, num_params |-> 0, instr |-> <<2, 1>>,
     functions |-> {"entry", "helper"}],
    \* 8: an intrinsic, memory traffic, then the target call
    [blocks |-> << <<CallI("llvm.memcpy", 3), I("Alloca"), I("Store"), I("Load"),
                     CallI("target", 0), RetI>> >>,
     first |-> EntryOnly, num_params |-> 2, instr |-> <<1, 5>>, functions |-> {"entry"}],
    \* 9: value plumbing, then the target call, then unreachable
    [blocks |-> << <<I("GetElementPtr"), I("Binary"), I("Unary"), I("Other"),
                     CallI("target", 0), I("Unreachable")>> >>,
     first |-> EntryOnly, num_params |-> 0, instr |-> <<1, 5>>, functions |-> {"entry"}],
    \* 10: a phi at the join of a conditional branch
    [blocks |-> << <<CallI("target", 0), CondBrI(2, 3)>>, <<BrI(3)>>,
                   <<PhiI(<<1, 2>>), RetValI>> >>,
     first |-> EntryOnly, num_params |-> 0, instr |-> <<1, 1>>, functions |-> {"entry"}],
    \* 11: a helper whose block ends in a terminator the engine does not handle (invoke)
    [blocks |-> << <<CallI("helper", 0), RetI>>, <<CallI("target", 0), I("Other")>> >>,
     first |-> WithHelper, num_params |-> 0, instr |-> <<2, 1>>,
     functions |-> {"entry", "helper"}],
    \* 12: two branches on the same value, x > 0 then x < 0, before the target call
    [blocks |-> << <<I("ICmp"), CondBrI(2, 4)>>, <<I("ICmp"), CondBrI(3, 4)>>,
                   <<CallI("target", 1), RetI>>, <<RetI>> >>,
     first |-> EntryOnly, num_params |-> 1, instr |-> <<3, 1>>, functions |-> {"entry"}],
    \* 13: a self-loop with a body of five nodes
    [blocks |-> << <<CallI("target", 0), I("Binary"), I("Binary"), I("Binary"),
                     CondBrI(1, 2)>>, <<RetI>> >>,
     first |-> EntryOnly, num_params |-> 0, instr |-> <<1, 1>>, functions |-> {"entry"}],
    \* 14: an indirect call, a call of a function with "llvm." inside its
    \* name, then the target call
    [blocks |-> << <<I("Call"), CallI("my.llvm.hook", 0), CallI("target", 0), RetI>> >>,
     first |-> EntryOnly, num_params |-> 0, instr |-> <<1, 3>>, functions |-> {"entry"}],
    \* 15: the diamond of slice 2, the target call sits on the else side
    [blocks |-> << <<I("ICmp"), CondBrI(2, 3)>>, <<CallI("target", 0), BrI(4)>>,
                   <<CallI("target", 0), BrI(4)>>, <<RetI>> >>,
     first |-> EntryOnly, num_params |-> 0, instr |-> <<3, 1>>, functions |-> {"entry"}],
    \* 16: a switch whose default edge leads back to the switch
    [blocks |-> << <<CallI("target", 0), SwitchI(1, <<2>>)>>, <<RetI>> >>,
     first |-> EntryOnly, num_params |-> 0, instr |-> <<1, 1>>, functions |-> {"entry"}],
    \* 17: a helper in the slice that returns nothing, a function with a
    \* body that is outside the slice, then the target call
    [blocks |-> << <<CallI("helper", 1), CallI("other", 0), CallI("target", 0), RetI>>,
                   <<RetI>>, <<RetI>> >>,
     first |-> [entry |-> Some(1), helper |-> Some(2), other |-> Some(3), target |-> None],
     num_params |-> 0, instr |-> <<1, 3>>, functions |-> {"entry", "helper"}],
    \* 18: a fork, then memory traffic, a descended call and the target call
    \* on the then side
    [blocks |-> << <<I("ICmp"), CondBrI(2, 3)>>,
                   <<I("Load"), I("Store"), CallI("helper", 0), CallI("target", 0), RetI>>,
                   <<RetI>>, <<RetValI>> >>,
     first |-> [entry |-> Some(1), helper |-> Some(4), target |-> None],
     num_params |-> 0, instr |-> <<2, 4>>, functions |-> {"entry", "helper"}],
    \* 19: a helper in the slice that calls itself
    [blocks |-> << <<CallI("target", 0), CallI("helper", 0), RetI>>,
                   <<CallI("helper", 0), RetI>> >>,
     first |-> WithHelper, num_params |-> 0, instr |-> <<1, 1>>,
     functions |-> {"entry", "helper"}]
  >>

NumSlices == Len(Slices)

\* Instruction accessors of the IR view
InstrAt(s, ins) == Slices[s].blocks[ins[1]][ins[2]]

parent_block(ins) == ins[1]

first_instruction(s, b) ==
    IF Len(Slices[s].blocks[b]) >= 1 THEN Some(<<b, 1>>) ELSE None

next_instruction(s, ins) ==
    IF ins[2] < Len(Slices[s].blocks[ins[1]]) THEN Some(<<ins[1], ins[2] + 1>>) ELSE None

\* instr.callee_function(): the callee when it is a function of the module
callee_function(s, ins) ==
    LET n == InstrAt(s, ins).name
    IN  IF IsSome(n) /\ Unwrap(n) \in DOMAIN Slices[s].first THEN n ELSE None

is_declaration_only(s, f) == Slices[s].first[f] = None

first_block(s, f) == Slices[s].first[f]

\* str::contains("llvm."): the names of the model are matched on their prefix
\* and on the one mid-name occurrence the slices could hold
contains_llvm(n) == n \in {"llvm.memcpy", "llvm.dbg.declare", "my.llvm.hook"}

\* ------------------------------------------------------------------------
\* Values, locations (semantics)
\* ------------------------------------------------------------------------
Unknown == <<"Unknown">>

Argument(i) == <<"Argument", i>>

Symbol(id) == <<"Symbol", id>>

CallValue(id, func, args) == <<"Call", id, func, args>>

Comparison(pred, op0, op1) == <<"Comparison", pred, op0, op1>>

LocUnknown == <<"LocUnknown">>

LocAlloca(id) == <<"LocAlloca", id>>

LocGlobal(n) == <<"LocGlobal", n>>

LocGetElementPtr(loc, indices) == <<"LocGetElementPtr", loc, indices>>

\* Value::as_comparison: the comparison carried by a value, if it is one
as_comparison(v) == IF v[1] = "Comparison" THEN Some(v) ELSE None

\* ------------------------------------------------------------------------
\* MetaData
\* ------------------------------------------------------------------------
MetaData_new ==
    [proper_trace_count |-> 0, path_unsat_trace_count |-> 0,
     branch_explored_trace_count |-> 0, duplicate_trace_count |-> 0,
     no_target_trace_count |-> 0, exceeding_length_trace_count |-> 0,
     unreachable_trace_count |-> 0, explored_trace_count |-> 0]

\* combine that keeps its own explored_trace_count instead of adding the other's
combine_keeps_own_explored(self, other) ==
    [proper_trace_count |-> self.proper_trace_count + other.proper_trace_count,
     path_unsat_trace_count |-> self.path_unsat_trace_count + other.path_unsat_trace_count,
     branch_explored_trace_count |->
        self.branch_explored_trace_count + other.branch_explored_trace_count,
     duplicate_trace_count |-> self.duplicate_trace_count + other.duplicate_trace_count,
     no_target_trace_count |-> self.no_target_trace_count + other.no_target_trace_count,
     exceeding_length_trace_count |->
        self.exceeding_length_trace_count + other.exceeding_length_trace_count,
     unreachable_trace_count |-> self.unreachable_trace_count + other.unreachable_trace_count,
     explored_trace_count |-> self.explored_trace_count]

combine(self, other) ==
    [proper_trace_count |-> self.proper_trace_count + other.proper_trace_count,
     path_unsat_trace_count |-> self.path_unsat_trace_count + other.path_unsat_trace_count,
     branch_explored_trace_count |->
        self.branch_explored_trace_count + other.branch_explored_trace_count,
     duplicate_trace_count |-> self.duplicate_trace_count + other.duplicate_trace_count,
     no_target_trace_count |-> self.no_target_trace_count + other.no_target_trace_count,
     exceeding_length_trace_count |->
        self.exceeding_length_trace_count + other.exceeding_length_trace_count,
     unreachable_trace_count |-> self.unreachable_trace_count + other.unreachable_trace_count,
     explored_trace_count |-> self.explored_trace_count + other.explored_trace_count]

incr_proper(m) ==
    [m EXCEPT !.proper_trace_count = @ + 1, !.explored_trace_count = @ + 1]

incr_path_unsat(m) ==
    [m EXCEPT !.path_unsat_trace_count = @ + 1, !.explored_trace_count = @ + 1]

incr_branch_explored(m) ==
    [m EXCEPT !.branch_explored_trace_count = @ + 1, !.explored_trace_count = @ + 1]

incr_duplicated(m) ==
    [m EXCEPT !.duplicate_trace_count = @ + 1, !.explored_trace_count = @ + 1]

incr_no_target_forgets_explored(m) ==
    [m EXCEPT !.no_target_trace_count = @ + 1]

incr_no_target(m) ==
    [m EXCEPT !.no_target_trace_count = @ + 1, !.explored_trace_count = @ + 1]

incr_exceeding_length(m) ==
    [m EXCEPT !.exceeding_length_trace_count = @ + 1, !.explored_trace_count = @ + 1]

incr_unreachable(m) ==
    [m EXCEPT !.unreachable_trace_count = @ + 1, !.explored_trace_count = @ + 1]

\* ------------------------------------------------------------------------
\* StackFrame, State, Work, Environment
\* ------------------------------------------------------------------------
StackFrame_entry(s) ==
    [function |-> "entry", instr |-> None, memory |-> EmptyMap,
     arguments |-> [i \in 1..Slices[s].num_params |-> Argument(i - 1)]]

\* stack.top(): the last frame
top(stack) == stack[Len(stack)]

State_new(s) ==
    [stack |-> <<StackFrame_entry(s)>>, memory |-> EmptyMap, visited_branch |-> {},
     block_trace |-> <<>>, trace |-> <<>>, target_node |-> None, prev_block |-> None,
     finish_state |-> "ProperlyReturned", constraints |-> <<>>,
     alloca_id |-> 0, symbol_id |-> 0, pointer_value_id |-> 0]

\* State::new_symbol_id: <<the id handed out, the state after>>
new_symbol_id(st) == <<st.symbol_id, [st EXCEPT !.symbol_id = @ + 1]>>

add_constraint(st, cond, branch) ==
    [st EXCEPT !.constraints = Append(@, [cond |-> cond, branch |-> branch])]

\* constant integer leaf of Value
IntConst(n) == <<"Int", n>>

\* Comparison::into_z3_ast: a comparison with an operand that has no SMT
\* form (Unknown) is not lowered
into_z3_ast(cond) ==
    IF cond[3] = Unknown \/ cond[4] = Unknown THEN None ELSE Some(cond)

solver_assertions_ignores_branch(st) ==
    LET lowered(c) == IsSome(into_z3_ast(c.cond))
        kept == SelectSeq(st.constraints, lowered)
    IN  [i \in DOMAIN kept |-> [cond |-> Unwrap(into_z3_ast(kept[i].cond)), positive |-> TRUE]]

\* the loop of State::path_satisfactory: the formulas handed to solver.assert,
\* in order; positive = FALSE stands for cond.not()
solver_assertions(st) ==
    LET lowered(c) == IsSome(into_z3_ast(c.cond))
        kept == SelectSeq(st.constraints, lowered)
    IN  [i \in DOMAIN kept |->
            [cond |-> Unwrap(into_z3_ast(kept[i].cond)), positive |-> kept[i].branch]]

\* The SMT constants of a query range over SolverDomain; every symbolic leaf
\* of the model's comparisons is the same constant (Argument(0)).
SolverDomain == {0 - 1, 0, 1}

operand_value(v, x) == IF v[1] = "Int" THEN v[2] ELSE x

\* truth of a lowered comparison when the SMT constant is x
comparison_holds(cond, x) ==
    LET a == operand_value(cond[3], x)
        b == operand_value(cond[4], x)
    IN  CASE cond[2] = "Sgt" -> a > b
          [] cond[2] = "Slt" -> a < b
          [] cond[2] = "Eq" -> a = b

\* solver.check(): the answers a sound solver can give on the asserted
\* formulas.  With nothing asserted the answer is Sat; otherwise Sat only if
\* a model exists, Unsat only if none does, and Unknown when it gives up.
solver_check(asserted) ==
    LET satisfiable ==
            \E x \in SolverDomain :
                \A i \in DOMAIN asserted :
                    comparison_holds(asserted[i].cond, x) <=> asserted[i].positive
    IN  IF asserted = <<>> THEN {"Sat"}
        ELSE IF satisfiable THEN {"Sat", "Unknown"} ELSE {"Unsat", "Unknown"}

\* State::path_satisfactory when solver.check() answers result
path_satisfactory(st, result) ==
    /\ result \in solver_check(solver_assertions(st))
    /\ result \in {"Sat", "Unknown"}

Work_entry(s) == [block |-> Unwrap(first_block(s, "entry")), state |-> State_new(s)]

Environment_new(s) ==
    [slice |-> s, work_list |-> <<Work_entry(s)>>, block_traces |-> <<>>, call_id |-> 0]

\* pop_work that takes the oldest Work
pop_work_fifo(ev) ==
    <<ev.work_list[1], [ev EXCEPT !.work_list = SubSeq(@, 2, Len(@))]>>

\* Environment::pop_work: <<the Work popped, the environment after>>
pop_work(ev) ==
    <<ev.work_list[Len(ev.work_list)],
      [ev EXCEPT !.work_list = SubSeq(@, 1, Len(@) - 1)]>>

has_work(ev) == ev.work_list # <<>>

\* Environment::new_call_id: <<the id handed out, the environment after>>
new_call_id(ev) == <<ev.call_id, [ev EXCEPT !.call_id = @ + 1]>>

add_work(ev, w) == [ev EXCEPT !.work_list = Append(@, w)]

\* BlockTrace::equals
equals(a, b) ==
    IF Len(a) = Len(b) THEN \A i \in 1..Len(a) : a[i] = b[i] ELSE FALSE

has_duplicate(ev, block_trace) ==
    \E i \in DOMAIN ev.block_traces : equals(block_trace, ev.block_traces[i])

\* ------------------------------------------------------------------------
\* Execution core.  A transfer function leaves behind the path's state, the
\* environment, and either the instruction it hands to execute_instr
\* (stop = "") or the place where it returned to the scheduler.
\* ------------------------------------------------------------------------
Continue(st, ev, next) == [state |-> st, env |-> ev, next |-> next, stop |-> ""]

Stop(st, ev, why) == [state |-> st, env |-> ev, next |-> None, stop |-> why]

\* TraceNode {semantics, result}; instr is the instruction the node was pushed
\* for (the field the source keeps commented out), kept to tell nodes apart
TraceNode(sem, result, ins) == [semantics |-> sem, result |-> result, instr |-> ins]

\* push_node that puts the node in front of the trace
push_node_prepends(st, sem, result, ins) ==
    [st EXCEPT !.trace = <<TraceNode(sem, result, ins)>> \o @]

push_node(st, sem, result, ins) ==
    [st EXCEPT !.trace = Append(@, TraceNode(sem, result, ins))]

\* binds a value to an instruction in the top frame's local memory
bind_top(st, ins, v) ==
    [st EXCEPT !.stack[Len(st.stack)].memory = MapInsert(@, ins, v)]

eval_operand_value(st, operand) == Unknown

eval_operand_location(st, operand) == LocUnknown

execute_block(block, st, ev) ==
    Continue([st EXCEPT !.block_trace = Append(@, block)], ev,
             first_instruction(ev.slice, block))

\* execute_function that leaves only the callee's frame on the stack
execute_function_replaces_stack(instr_node_id, instr, func, args, st, ev) ==
    IF IsSome(first_block(ev.slice, func))
    THEN LET stack_frame == [function |-> func, instr |-> Some(<<instr_node_id, instr>>),
                             memory |-> EmptyMap, arguments |-> args]
         IN  execute_block(Unwrap(first_block(ev.slice, func)),
                           [st EXCEPT !.stack = <<stack_frame>>], ev)
    ELSE Stop(st, ev, "no_first_block")

execute_function(instr_node_id, instr, func, args, st, ev) ==
    IF IsSome(first_block(ev.slice, func))
    THEN LET stack_frame == [function |-> func, instr |-> Some(<<instr_node_id, instr>>),
                             memory |-> EmptyMap, arguments |-> args]
         IN  execute_block(Unwrap(first_block(ev.slice, func)),
                           [st EXCEPT !.stack = Append(@, stack_frame)], ev)
    ELSE Stop(st, ev, "no_first_block")

load_from_memory_forgets_symbol(st, location) ==
    IF location = LocUnknown THEN <<Unknown, st>>
    ELSE IF location \in DOMAIN st.memory THEN <<st.memory[location], st>>
    ELSE LET id == new_symbol_id(st)
         IN  <<Symbol(id[1]), id[2]>>

\* <<the value read, the state after>>
load_from_memory(st, location) ==
    IF location = LocUnknown THEN <<Unknown, st>>
    ELSE IF location \in DOMAIN st.memory THEN <<st.memory[location], st>>
    ELSE LET id == new_symbol_id(st)
             value == Symbol(id[1])
         IN  <<value, [id[2] EXCEPT !.memory = MapInsert(@, location, value)]>>

store_to_memory_keeps_old(st, location, value) ==
    IF location \in DOMAIN st.memory THEN st
    ELSE [st EXCEPT !.memory = MapInsert(@, location, value)]

\* memory.insert(loc, val) of transfer_store_instr
store_to_memory(st, location, value) ==
    [st EXCEPT !.memory = MapInsert(@, location, value)]

transfer_ret_instr_keeps_entry_frame(instr, st, ev) ==
    LET s == ev.slice
        val == IF InstrAt(s, instr).val THEN Some(eval_operand_value(st, instr)) ELSE None
        st1 == push_node(st, <<"Return", val>>, None, instr)
        stack_frame == top(st1.stack)
        st2 == [st1 EXCEPT !.stack = SubSeq(@, 1, Len(@) - 1)]
    IN  IF IsSome(stack_frame.instr)
        THEN LET node_id == Unwrap(stack_frame.instr)[1]
                 call_site == Unwrap(stack_frame.instr)[2]
                 st3 == IF IsSome(val)
                        THEN bind_top([st2 EXCEPT !.trace[node_id + 1].result = val],
                                      call_site, Unwrap(val))
                        ELSE st2
             IN  Continue(st3, ev, next_instruction(s, call_site))
        ELSE Stop([st1 EXCEPT !.finish_state = "ProperlyReturned"], ev, "ret_entry")

\* transfer_ret_instr that back-patches the last node of the trace
transfer_ret_instr_patches_last_node(instr, st, ev) ==
    LET s == ev.slice
        val == IF InstrAt(s, instr).val THEN Some(eval_operand_value(st, instr)) ELSE None
        st1 == push_node(st, <<"Return", val>>, None, instr)
        stack_frame == top(st1.stack)
        st2 == [st1 EXCEPT !.stack = SubSeq(@, 1, Len(@) - 1)]
    IN  IF IsSome(stack_frame.instr)
        THEN LET call_site == Unwrap(stack_frame.instr)[2]
                 st3 == IF IsSome(val)
                        THEN bind_top([st2 EXCEPT !.trace[Len(st2.trace)].result = val],
                                      call_site, Unwrap(val))
                        ELSE st2
             IN  Continue(st3, ev, next_instruction(s, call_site))
        ELSE Stop([st2 EXCEPT !.finish_state = "ProperlyReturned"], ev, "ret_entry")

transfer_ret_instr(instr, st, ev) ==
    LET s == ev.slice
        val == IF InstrAt(s, instr).val THEN Some(eval_operand_value(st, instr)) ELSE None
        st1 == push_node(st, <<"Return", val>>, None, instr)
    IN  IF st1.stack = <<>> THEN Stop(st1, ev, "panic")
        ELSE
        LET stack_frame == top(st1.stack)
            st2 == [st1 EXCEPT !.stack = SubSeq(@, 1, Len(@) - 1)]
        IN  IF IsSome(stack_frame.instr)
            THEN IF st2.stack = <<>> THEN Stop(st2, ev, "panic")
                 ELSE
                 LET node_id == Unwrap(stack_frame.instr)[1]
                     call_site == Unwrap(stack_frame.instr)[2]
                     st3 == IF IsSome(val)
                            THEN bind_top([st2 EXCEPT !.trace[node_id + 1].result = val],
                                          call_site, Unwrap(val))
                            ELSE st2
                 IN  Continue(st3, ev, next_instruction(s, call_site))
            ELSE Stop([st2 EXCEPT !.finish_state = "ProperlyReturned"], ev, "ret_entry")

\* transfer_br_instr that clones the else state after the then edge was taken
transfer_br_instr_clones_after_then(instr, st0, ev) ==
    LET i == InstrAt(ev.slice, instr)
        curr_blk == parent_block(instr)
        st == [st0 EXCEPT !.prev_block = Some(curr_blk)]
    IN  IF i.op = "CondBr"
        THEN LET cond == eval_operand_value(st, instr)
                 comparison == as_comparison(cond)
                 is_loop_blk == FALSE
                 then_br == <<curr_blk, i.t>>
                 else_br == <<curr_blk, i.e>>
                 visited_then == then_br \in st.visited_branch
                 visited_else == else_br \in st.visited_branch
                 constrained(x, branch) ==
                     IF IsSome(comparison) /\ ~is_loop_blk
                     THEN add_constraint(x, Unwrap(comparison), branch) ELSE x
                 else_taken(x) ==
                     push_node([constrained(x, FALSE) EXCEPT !.visited_branch = @ \cup {else_br}],
                               <<"ConditionalBr", cond, "Else", FALSE>>, None, instr)
                 then_taken(x) ==
                     push_node([constrained(x, TRUE) EXCEPT !.visited_branch = @ \cup {then_br}],
                               <<"ConditionalBr", cond, "Then", is_loop_blk>>, None, instr)
             IN  IF ~visited_then
                 THEN LET ev1 == IF ~visited_else
                                 THEN add_work(ev, [block |-> i.e,
                                                   state |-> else_taken(then_taken(st))])
                                 ELSE ev
                      IN  execute_block(i.t, then_taken(st), ev1)
                 ELSE IF ~visited_else
                 THEN execute_block(i.e, else_taken(st), ev)
                 ELSE Stop([st EXCEPT !.finish_state = "BranchExplored"], ev, "branch_explored")
        ELSE execute_block(i.t, push_node(st, <<"UnconditionalBr", FALSE>>, None, instr), ev)

\* transfer_br_instr that takes the then edge again when both edges are visited
transfer_br_instr_retakes_then(instr, st0, ev) ==
    LET i == InstrAt(ev.slice, instr)
        curr_blk == parent_block(instr)
        st == [st0 EXCEPT !.prev_block = Some(curr_blk)]
    IN  IF i.op = "CondBr"
        THEN LET cond == eval_operand_value(st, instr)
                 comparison == as_comparison(cond)
                 is_loop_blk == FALSE
                 then_br == <<curr_blk, i.t>>
                 else_br == <<curr_blk, i.e>>
                 visited_then == then_br \in st.visited_branch
                 visited_else == else_br \in st.visited_branch
                 constrained(x, branch) ==
                     IF IsSome(comparison) /\ ~is_loop_blk
                     THEN add_constraint(x, Unwrap(comparison), branch) ELSE x
                 else_taken(x) ==
                     push_node([constrained(x, FALSE) EXCEPT !.visited_branch = @ \cup {else_br}],
                               <<"ConditionalBr", cond, "Else", FALSE>>, None, instr)
                 then_taken(x) ==
                     push_node([constrained(x, TRUE) EXCEPT !.visited_branch = @ \cup {then_br}],
                               <<"ConditionalBr", cond, "Then", is_loop_blk>>, None, instr)
             IN  IF ~visited_then
                 THEN LET ev1 == IF ~visited_else
                                 THEN add_work(ev, [block |-> i.e, state |-> else_taken(st)])
                                 ELSE ev
                      IN  execute_block(i.t, then_taken(st), ev1)
                 ELSE IF ~visited_else
                 THEN execute_block(i.e, else_taken(st), ev)
                 ELSE execute_block(i.t, then_taken(st), ev)
        ELSE execute_block(i.t, push_node(st, <<"UnconditionalBr", FALSE>>, None, instr), ev)

transfer_br_instr(instr, st0, ev) ==
    LET i == InstrAt(ev.slice, instr)
        curr_blk == parent_block(instr)
        st == [st0 EXCEPT !.prev_block = Some(curr_blk)]
    IN  IF i.op = "CondBr"
        THEN LET cond == eval_operand_value(st, instr)
                 comparison == as_comparison(cond)
                 is_loop_blk == FALSE
                 then_br == <<curr_blk, i.t>>
                 else_br == <<curr_blk, i.e>>
                 visited_then == then_br \in st.visited_branch
                 visited_else == else_br \in st.visited_branch
                 constrained(x, branch) ==
                     IF IsSome(comparison) /\ ~is_loop_blk
                     THEN add_constraint(x, Unwrap(comparison), branch) ELSE x
                 else_taken(x) ==
                     push_node([constrained(x, FALSE) EXCEPT !.visited_branch = @ \cup {else_br}],
                               <<"ConditionalBr", cond, "Else", FALSE>>, None, instr)
                 then_taken(x) ==
                     push_node([constrained(x, TRUE) EXCEPT !.visited_branch = @ \cup {then_br}],
                               <<"ConditionalBr", cond, "Then", is_loop_blk>>, None, instr)
             IN  IF ~visited_then
                 THEN LET ev1 == IF ~visited_else
                                 THEN add_work(ev, [block |-> i.e, state |-> else_taken(st)])
                                 ELSE ev
                      IN  execute_block(i.t, then_taken(st), ev1)
                 ELSE IF ~visited_else
                 THEN execute_block(i.e, else_taken(st), ev)
                 ELSE Stop([st EXCEPT !.finish_state = "BranchExplored"], ev, "branch_explored")
        ELSE execute_block(i.t, push_node(st, <<"UnconditionalBr", FALSE>>, None, instr), ev)

transfer_switch_instr(instr, st0, ev) ==
    LET i == InstrAt(ev.slice, instr)
        curr_blk == parent_block(instr)
        cond == eval_operand_value(st0, instr)
        default_br == <<curr_blk, i.t>>
        branches == [k \in DOMAIN i.cases |-> <<curr_blk, i.cases[k]>>]
        st == push_node([st0 EXCEPT !.prev_block = Some(curr_blk)],
                        <<"Switch", cond>>, None, instr)
        unvisited(bd) == bd \notin st.visited_branch
        todo == SelectSeq(branches, unvisited)
        br_work(bd) == [block |-> bd[2],
                        state |-> [st EXCEPT !.visited_branch = @ \cup {bd}]]
        ev1 == [ev EXCEPT !.work_list = @ \o [k \in DOMAIN todo |-> br_work(todo[k])]]
    IN  IF default_br \notin st.visited_branch
        THEN execute_block(i.t, [st EXCEPT !.visited_branch = @ \cup {default_br}], ev1)
        ELSE Stop(st, ev1, "switch_default_visited")

\* call_descend_or_summarize that also records the summary as the result of
\* the Call node
call_summary_recorded_in_node(instr, node_id, callee_name, args, st, ev) ==
    LET s == ev.slice
        callee == callee_function(s, instr)
    IN  IF IsSome(callee) /\ ~is_declaration_only(s, Unwrap(callee))
           /\ Unwrap(callee) \in Slices[s].functions
        THEN execute_function(node_id, instr, Unwrap(callee), args, st, ev)
        ELSE LET id == new_call_id(ev)
                 result == CallValue(id[1], callee_name, args)
                 st1 == [st EXCEPT !.trace[node_id + 1].result = Some(result)]
             IN  Continue(bind_top(st1, instr, result), id[2], next_instruction(s, instr))

\* call_descend_or_summarize whose summary is also bound in the top frame of
\* every queued state, as if the frames of a clone were shared with its parent
call_summary_bound_in_queued_states(instr, node_id, callee_name, args, st, ev) ==
    LET s == ev.slice
        callee == callee_function(s, instr)
    IN  IF IsSome(callee) /\ ~is_declaration_only(s, Unwrap(callee))
           /\ Unwrap(callee) \in Slices[s].functions
        THEN execute_function(node_id, instr, Unwrap(callee), args, st, ev)
        ELSE LET id == new_call_id(ev)
                 result == CallValue(id[1], callee_name, args)
                 shared == [id[2] EXCEPT !.work_list =
                              [k \in DOMAIN @ |->
                                  [@[k] EXCEPT !.state = bind_top(@, instr, result)]]]
             IN  Continue(bind_top(st, instr, result), shared, next_instruction(s, instr))

\* call_descend_or_summarize that descends into every callee that has a body
call_descend_ignores_slice_functions(instr, node_id, callee_name, args, st, ev) ==
    LET s == ev.slice
        callee == callee_function(s, instr)
    IN  IF IsSome(callee) /\ ~is_declaration_only(s, Unwrap(callee))
        THEN execute_function(node_id, instr, Unwrap(callee), args, st, ev)
        ELSE LET id == new_call_id(ev)
                 result == CallValue(id[1], callee_name, args)
             IN  Continue(bind_top(st, instr, result), id[2], next_instruction(s, instr))

\* the part of transfer_call_instr after the target check: descend or summarize
call_descend_or_summarize(instr, node_id, callee_name, args, st, ev) ==
    LET s == ev.slice
        callee == callee_function(s, instr)
    IN  IF IsSome(callee) /\ ~is_declaration_only(s, Unwrap(callee))
           /\ Unwrap(callee) \in Slices[s].functions
        THEN execute_function(node_id, instr, Unwrap(callee), args, st, ev)
        ELSE LET id == new_call_id(ev)
                 result == CallValue(id[1], callee_name, args)
             IN  Continue(bind_top(st, instr, result), id[2], next_instruction(s, instr))

transfer_call_instr_overwrites_target(instr, st, ev) ==
    LET s == ev.slice
        i == InstrAt(s, instr)
        args == [k \in 1..i.nargs |-> eval_operand_value(st, instr)]
        node_id == Len(st.trace)
        st1 == push_node(st, <<"Call", Unwrap(i.name), args>>, None, instr)
        st2 == IF instr = Slices[s].instr
               THEN [st1 EXCEPT !.target_node = Some(node_id)] ELSE st1
    IN  IF i.name = None \/ contains_llvm(Unwrap(i.name))
        THEN Continue(st, ev, next_instruction(s, instr))
        ELSE call_descend_or_summarize(instr, node_id, Unwrap(i.name), args, st2, ev)

transfer_call_instr_marks_any_call(instr, st, ev) ==
    LET s == ev.slice
        i == InstrAt(s, instr)
        args == [k \in 1..i.nargs |-> eval_operand_value(st, instr)]
        node_id == Len(st.trace)
        st1 == push_node(st, <<"Call", Unwrap(i.name), args>>, None, instr)
        st2 == IF st1.target_node = None
               THEN [st1 EXCEPT !.target_node = Some(node_id)] ELSE st1
    IN  IF i.name = None \/ contains_llvm(Unwrap(i.name))
        THEN Continue(st, ev, next_instruction(s, instr))
        ELSE call_descend_or_summarize(instr, node_id, Unwrap(i.name), args, st2, ev)

transfer_call_instr_node_id_after_push(instr, st, ev) ==
    LET s == ev.slice
        i == InstrAt(s, instr)
        args == [k \in 1..i.nargs |-> eval_operand_value(st, instr)]
        st1 == push_node(st, <<"Call", Unwrap(i.name), args>>, None, instr)
        node_id == Len(st1.trace)
        st2 == IF instr = Slices[s].instr /\ st1.target_node = None
               THEN [st1 EXCEPT !.target_node = Some(node_id)] ELSE st1
    IN  IF i.name = None \/ contains_llvm(Unwrap(i.name))
        THEN Continue(st, ev, next_instruction(s, instr))
        ELSE call_descend_or_summarize(instr, node_id, Unwrap(i.name), args, st2, ev)

transfer_call_instr(instr, st, ev) ==
    LET s == ev.slice
        i == InstrAt(s, instr)
        callee_name == i.name
        args == [k \in 1..i.nargs |-> eval_operand_value(st, instr)]
        node_id == Len(st.trace)
        st1 == push_node(st, <<"Call", Unwrap(callee_name), args>>, None, instr)
        st2 == IF instr = Slices[s].instr /\ st1.target_node = None
               THEN [st1 EXCEPT !.target_node = Some(node_id)] ELSE st1
    IN  IF callee_name = None \/ contains_llvm(Unwrap(callee_name))
        THEN Continue(st, ev, next_instruction(s, instr))
        ELSE call_descend_or_summarize(instr, node_id, Unwrap(callee_name), args, st2, ev)

transfer_alloca_instr(instr, st, ev) == Continue(st, ev, next_instruction(ev.slice, instr))

transfer_store_instr(instr, st, ev) ==
    LET loc == eval_operand_location(st, instr)
        val == eval_operand_value(st, instr)
        st1 == push_node(store_to_memory(st, loc, val), <<"Store", loc, val>>, None, instr)
    IN  Continue(st1, ev, next_instruction(ev.slice, instr))

transfer_load_instr(instr, st, ev) ==
    LET loc == eval_operand_location(st, instr)
        ld == load_from_memory(st, loc)
        st1 == push_node(ld[2], <<"Load", loc>>, Some(ld[1]), instr)
    IN  Continue(bind_top(st1, instr, ld[1]), ev, next_instruction(ev.slice, instr))

transfer_icmp_instr(instr, st, ev) ==
    LET pred == "pred"
        op0 == eval_operand_value(st, instr)
        op1 == eval_operand_value(st, instr)
        res == Comparison(pred, op0, op1)
        st1 == push_node(st, <<"Compare", pred, op0, op1>>, Some(res), instr)
    IN  Continue(bind_top(st1, instr, res), ev, next_instruction(ev.slice, instr))

\* transfer_phi_instr that goes on without binding when no incoming matches
transfer_phi_instr_skips_missing(instr, st, ev) ==
    LET i == InstrAt(ev.slice, instr)
    IN  IF st.prev_block = None THEN Stop(st, ev, "panic")
        ELSE IF \A k \in DOMAIN i.inc : i.inc[k] # Unwrap(st.prev_block)
        THEN Continue(st, ev, next_instruction(ev.slice, instr))
        ELSE Continue(bind_top(st, instr, eval_operand_value(st, instr)), ev,
                      next_instruction(ev.slice, instr))

transfer_phi_instr(instr, st, ev) ==
    LET i == InstrAt(ev.slice, instr)
    IN  IF st.prev_block = None THEN Stop(st, ev, "panic")
        ELSE IF \A k \in DOMAIN i.inc : i.inc[k] # Unwrap(st.prev_block)
        THEN Stop(st, ev, "panic")
        ELSE Continue(bind_top(st, instr, eval_operand_value(st, instr)), ev,
                      next_instruction(ev.slice, instr))

transfer_gep_instr(instr, st, ev) ==
    LET loc == eval_operand_location(st, instr)
        indices == <<eval_operand_value(st, instr)>>
        res == <<"Location", LocGetElementPtr(loc, indices)>>
        st1 == push_node(st, <<"GetElementPtr", loc, indices>>, Some(res), instr)
    IN  Continue(bind_top(st1, instr, res), ev, next_instruction(ev.slice, instr))

transfer_binary_instr(instr, st, ev) ==
    LET op == "op"
        v0 == eval_operand_value(st, instr)
        v1 == eval_operand_value(st, instr)
        res == <<"BinaryOperation", op, v0, v1>>
        st1 == push_node(st, <<"BinaryOperation", op, v0, v1>>, Some(res), instr)
    IN  Continue(bind_top(st1, instr, res), ev, next_instruction(ev.slice, instr))

transfer_unary_instr(instr, st, ev) ==
    LET op == "op"
        op0 == eval_operand_value(st, instr)
        st1 == push_node(st, <<"UnaryOperation", op, op0>>, Some(op0), instr)
    IN  Continue(bind_top(st1, instr, op0), ev, next_instruction(ev.slice, instr))

transfer_unreachable_instr(instr, st, ev) ==
    Stop([st EXCEPT !.finish_state = "Unreachable"], ev, "unreachable")

\* transfer_instr that hands the same instruction to execute_instr again
transfer_instr_stays(instr, st, ev) == Continue(st, ev, Some(instr))

transfer_instr(instr, st, ev) == Continue(st, ev, next_instruction(ev.slice, instr))

\* ------------------------------------------------------------------------
\* Slice scheduler
\* ------------------------------------------------------------------------
continue_execution_ignores_budgets(m, opts) == TRUE

continue_execution(m, opts) ==
    /\ m.explored_trace_count < opts.max_explored_trace_per_slice
    /\ m.proper_trace_count < opts.max_trace_per_slice

\* SymbolicExecutionContext::trace_file_name: <output>/traces/<func>/<slice_id>/<trace_id>
trace_file_name(func_name, sid, tid) == <<"traces", func_name, sid, tid>>

proper_trace_id_counts_explored(m) == m.explored_trace_count

\* let trace_id = metadata.proper_trace_count
proper_trace_id(m) == m.proper_trace_count

\* does execute_slice call path_satisfactory for the finished path
solver_queried(st, ev) ==
    /\ IsSome(st.target_node)
    /\ st.finish_state = "ProperlyReturned"
    /\ ~has_duplicate(ev, st.block_trace)

\* the match of execute_slice on target_node and finish_state: is the path
\* handed to dump_json and counted proper, when solver.check() answers result
counted_proper(st, ev, result) ==
    /\ IsSome(st.target_node)
    /\ st.finish_state = "ProperlyReturned"
    /\ ~has_duplicate(ev, st.block_trace)
    /\ path_satisfactory(st, result)

classify_by_finish_state_first(st, ev, m, result) ==
    CASE st.finish_state = "ProperlyReturned" ->
            IF IsSome(st.target_node)
            THEN IF ~has_duplicate(ev, st.block_trace)
                 THEN IF path_satisfactory(st, result) THEN incr_proper(m) ELSE incr_path_unsat(m)
                 ELSE incr_duplicated(m)
            ELSE incr_no_target(m)
      [] st.finish_state = "BranchExplored" -> incr_branch_explored(m)
      [] st.finish_state = "ExceedingMaxTraceLength" -> incr_exceeding_length(m)
      [] st.finish_state = "Unreachable" -> incr_unreachable(m)

\* the counter execute_slice increments for a finished path
classify(st, ev, m, result) ==
    IF IsSome(st.target_node)
    THEN CASE st.finish_state = "ProperlyReturned" ->
                IF ~has_duplicate(ev, st.block_trace)
                THEN IF path_satisfactory(st, result) THEN incr_proper(m) ELSE incr_path_unsat(m)
                ELSE incr_duplicated(m)
           [] st.finish_state = "BranchExplored" -> incr_branch_explored(m)
           [] st.finish_state = "ExceedingMaxTraceLength" -> incr_exceeding_length(m)
           [] st.finish_state = "Unreachable" -> incr_unreachable(m)
    ELSE incr_no_target(m)

\* ------------------------------------------------------------------------
\* The state of a run of execute_slices
\* ------------------------------------------------------------------------
VARIABLES
    options,    \* SymbolicExecutionOptions: the three budgets
    slice_id,   \* position of the slice being executed in the input of execute_slices
    total,      \* accumulator of the fold of execute_slices
    metadata,   \* MetaData of the running execute_slice
    env,        \* Environment of the running execute_slice
    work,       \* the Work popped by the running loop iteration
    cur,        \* the Option<Instruction> handed to the pending execute_instr
    pc,         \* "loop", "exec", "classify", "done", "panic"
    stop,       \* where the path of work returned to the scheduler ("" while it runs)
    dumped,     \* the calls of dump_json made for the running slice, in order
    log,        \* the memory operations applied to work.state by the memory harness
    solver,     \* the last query of path_satisfactory: formulas asserted, answer
    driver,     \* which extract_features runs: "analyzer" or "core"
    trace_dirs, \* the traces directory: trace_dirs[s + 1][t + 1] is the content of <s>/<t>.json
    extractors, \* the FeatureExtractors of the target, with the calls they received
    listed,     \* the slices whose pass-2 task has read its trace directory
    tasks,      \* the pass-2 trace tasks that were spawned and have not run
    features,   \* the features directory: path -> record written
    previous,   \* the features directory the first run of the driver left behind
    use_serial, \* options.use_serial of the fold harness
    results,    \* fold harness: results[k] is what execute_slice returned for position k - 1
    parts,      \* fold harness: the accumulators of the fold, one per segment of the input
    slicer      \* slicer harness: options, edge list and the Chunks iterator of batches

feature_vars == <<driver, trace_dirs, extractors, listed, tasks, features, previous>>

fold_vars == <<use_serial, results, parts>>

vars == <<options, slice_id, total, metadata, env, work, cur, pc, stop, dumped, log, solver,
          feature_vars, fold_vars, slicer>>

\* the fold harness has not been started
FoldIdle ==
    /\ use_serial = TRUE
    /\ results = <<>>
    /\ parts = <<>>
    /\ slicer = <<>>

\* the feature driver has not been started
FeaturesIdle ==
    /\ driver = "analyzer"
    /\ trace_dirs = <<>>
    /\ extractors = <<>>
    /\ listed = {}
    /\ tasks = {}
    /\ features = EmptyMap
    /\ previous = None

NoWork == [block |-> 0, state |-> State_new(1)]

Options ==
    [max_trace_per_slice : 0..MaxTracePerSlice,
     max_explored_trace_per_slice : 0..MaxExploredTracePerSlice,
     max_node_per_trace : 0..MaxNodePerTrace]

Init ==
    /\ options \in Options
    /\ slice_id = 0
    /\ total = MetaData_new
    /\ metadata = MetaData_new
    /\ \E s \in 1..NumSlices : env = Environment_new(s)
    /\ work = NoWork
    /\ cur = None
    /\ pc = "loop"
    /\ stop = ""
    /\ dumped = <<>>
    /\ log = <<>>
    /\ solver = None
    /\ FeaturesIdle
    /\ FoldIdle

\* the effect of one execute_instr call that dispatched to a transfer function
Apply(r) ==
    /\ work' = [work EXCEPT !.state = r.state]
    /\ env' = r.env
    /\ cur' = r.next
    /\ stop' = r.stop
    /\ pc' = IF r.stop = "" THEN "exec" ELSE IF r.stop = "panic" THEN "panic" ELSE "classify"
    /\ UNCHANGED <<options, slice_id, total, metadata, dumped, log, solver, feature_vars, fold_vars, slicer>>

\* execute_instr got past the length check with an instruction of opcode op
Dispatch(op) ==
    /\ pc = "exec"
    /\ ~(Len(work.state.trace) > options.max_node_per_trace)
    /\ IsSome(cur)
    /\ InstrAt(env.slice, Unwrap(cur)).op = op

\* while env.has_work() && continue_execution: pop_work, execute_block
execute_slice_pop ==
    /\ pc = "loop"
    /\ has_work(env) /\ continue_execution(metadata, options)
    /\ LET w == pop_work(env)[1]
           ev == pop_work(env)[2]
           r == execute_block(w.block, w.state, ev)
       IN  /\ work' = [block |-> w.block, state |-> r.state]
           /\ env' = r.env
           /\ cur' = r.next
    /\ pc' = "exec"
    /\ stop' = ""
    /\ UNCHANGED <<options, slice_id, total, metadata, dumped, log, solver, feature_vars, fold_vars, slicer>>

execute_instr_exceeding ==
    /\ pc = "exec"
    /\ Len(work.state.trace) > options.max_node_per_trace
    /\ Apply(Stop([work.state EXCEPT !.finish_state = "ExceedingMaxTraceLength"], env,
                  "exceeding"))

execute_instr_none ==
    /\ pc = "exec"
    /\ ~(Len(work.state.trace) > options.max_node_per_trace)
    /\ cur = None
    /\ Apply(Stop([work.state EXCEPT !.finish_state = "ProperlyReturned"], env, "no_instr"))

execute_instr_ret == Dispatch("Return") /\ Apply(transfer_ret_instr(Unwrap(cur), work.state, env))

execute_instr_br ==
    /\ Dispatch("Br") \/ Dispatch("CondBr")
    /\ Apply(transfer_br_instr(Unwrap(cur), work.state, env))

execute_instr_switch ==
    Dispatch("Switch") /\ Apply(transfer_switch_instr(Unwrap(cur), work.state, env))

execute_instr_call ==
    Dispatch("Call") /\ Apply(transfer_call_instr(Unwrap(cur), work.state, env))

execute_instr_alloca ==
    Dispatch("Alloca") /\ Apply(transfer_alloca_instr(Unwrap(cur), work.state, env))

execute_instr_store ==
    Dispatch("Store") /\ Apply(transfer_store_instr(Unwrap(cur), work.state, env))

execute_instr_icmp ==
    Dispatch("ICmp") /\ Apply(transfer_icmp_instr(Unwrap(cur), work.state, env))

execute_instr_load ==
    Dispatch("Load") /\ Apply(transfer_load_instr(Unwrap(cur), work.state, env))

execute_instr_phi ==
    Dispatch("Phi") /\ Apply(transfer_phi_instr(Unwrap(cur), work.state, env))

execute_instr_gep ==
    Dispatch("GetElementPtr") /\ Apply(transfer_gep_instr(Unwrap(cur), work.state, env))

execute_instr_unreachable ==
    Dispatch("Unreachable") /\ Apply(transfer_unreachable_instr(Unwrap(cur), work.state, env))

execute_instr_binary ==
    Dispatch("Binary") /\ Apply(transfer_binary_instr(Unwrap(cur), work.state, env))

execute_instr_unary ==
    Dispatch("Unary") /\ Apply(transfer_unary_instr(Unwrap(cur), work.state, env))

execute_instr_other ==
    Dispatch("Other") /\ Apply(transfer_instr(Unwrap(cur), work.state, env))

\* the match on target_node / finish_state that ends a loop iteration
execute_slice_classify ==
    /\ pc = "classify"
    /\ \E result \in IF solver_queried(work.state, env)
                      THEN solver_check(solver_assertions(work.state)) ELSE {"NotAsked"} :
          /\ metadata' = classify(work.state, env, metadata, result)
          /\ dumped' = IF counted_proper(work.state, env, result)
                       THEN Append(dumped,
                                   [path |-> trace_file_name("target", slice_id,
                                                             proper_trace_id(metadata)),
                                    slice_id |-> slice_id,
                                    trace_id |-> proper_trace_id(metadata),
                                    state |-> work.state])
                       ELSE dumped
          /\ solver' = IF solver_queried(work.state, env)
                       THEN Some([asserted |-> solver_assertions(work.state),
                                  result |-> result])
                       ELSE solver
    /\ work' = NoWork
    /\ cur' = None
    /\ pc' = "loop"
    /\ UNCHANGED <<options, slice_id, total, env, stop, log, feature_vars, fold_vars, slicer>>

\* the loop ends; execute_slices folds the MetaData into its accumulator
execute_slice_return ==
    /\ pc = "loop"
    /\ ~(has_work(env) /\ continue_execution(metadata, options))
    /\ total' = combine(total, metadata)
    /\ pc' = "done"
    /\ UNCHANGED <<options, slice_id, metadata, env, work, cur, stop, dumped, log, solver, feature_vars, fold_vars, slicer>>

\* execute_slices (serial fold): the next slice of the input
execute_slices_next ==
    /\ pc = "done"
    /\ slice_id + 1 < MaxSlices
    /\ \E s \in 1..NumSlices : env' = Environment_new(s)
    /\ slice_id' = slice_id + 1
    /\ metadata' = MetaData_new
    /\ dumped' = <<>>
    /\ stop' = ""
    /\ pc' = "loop"
    /\ UNCHANGED <<options, total, work, cur, log, solver, feature_vars, fold_vars, slicer>>

Next ==
    \/ execute_slice_pop
    \/ execute_instr_exceeding
    \/ execute_instr_none
    \/ execute_instr_ret
    \/ execute_instr_br
    \/ execute_instr_switch
    \/ execute_instr_call
    \/ execute_instr_alloca
    \/ execute_instr_store
    \/ execute_instr_icmp
    \/ execute_instr_load
    \/ execute_instr_phi
    \/ execute_instr_gep
    \/ execute_instr_unreachable
    \/ execute_instr_binary
    \/ execute_instr_unary
    \/ execute_instr_other
    \/ execute_slice_classify
    \/ execute_slice_return
    \/ execute_slices_next

Spec == Init /\ [][Next]_vars

\* One call of execute_slice, for every slice and every setting of the
\* budgets: the steps of the engine up to the return of execute_slice.  The
\* call reads its slice and the options and writes its own MetaData and
\* Environment only, so what it does is the same wherever in the fold of
\* execute_slices it is made.
NextSlice ==
    \/ execute_slice_pop
    \/ execute_instr_exceeding
    \/ execute_instr_none
    \/ execute_instr_ret
    \/ execute_instr_br
    \/ execute_instr_switch
    \/ execute_instr_call
    \/ execute_instr_alloca
    \/ execute_instr_store
    \/ execute_instr_icmp
    \/ execute_instr_load
    \/ execute_instr_phi
    \/ execute_instr_gep
    \/ execute_instr_unreachable
    \/ execute_instr_binary
    \/ execute_instr_unary
    \/ execute_instr_other
    \/ execute_slice_classify
    \/ execute_slice_return

\* The engine is one sequential thread that runs until execute_slice
\* returns: a step that can be taken is taken.
SpecLive == Init /\ [][NextSlice]_vars /\ WF_vars(NextSlice)

\* ------------------------------------------------------------------------
\* Memory harness: memory.insert (the store of transfer_store_instr) and
\* load_from_memory applied to one State, over every location and value of
\* a small universe.  The engine itself only ever passes Location::Unknown,
\* because eval_operand_location is a stub.
\* ------------------------------------------------------------------------
MaxMemoryOps == 3

Locations ==
    {LocUnknown, LocAlloca(0), LocGlobal("g"), LocGetElementPtr(LocAlloca(0), <<Unknown>>)}

Values == {Unknown, Argument(0), CallValue(0, "target", <<>>)}

InitMemory ==
    /\ options = [max_trace_per_slice |-> MaxTracePerSlice,
                  max_explored_trace_per_slice |-> MaxExploredTracePerSlice,
                  max_node_per_trace |-> MaxNodePerTrace]
    /\ slice_id = 0
    /\ total = MetaData_new
    /\ metadata = MetaData_new
    /\ env = Environment_new(1)
    /\ work = [block |-> 1, state |-> State_new(1)]
    /\ cur = None
    /\ pc = "memory"
    /\ stop = ""
    /\ dumped = <<>>
    /\ log = <<>>
    /\ solver = None
    /\ FeaturesIdle
    /\ FoldIdle

memory_store ==
    /\ pc = "memory"
    /\ Len(log) < MaxMemoryOps
    /\ \E l \in Locations, v \in Values :
          /\ work' = [work EXCEPT !.state = store_to_memory(work.state, l, v)]
          /\ log' = Append(log, [op |-> "store", loc |-> l, val |-> v,
                                 hit |-> l \in DOMAIN work.state.memory,
                                 id_before |-> work.state.symbol_id,
                                 id_after |-> work.state.symbol_id])
    /\ UNCHANGED <<options, slice_id, total, metadata, env, cur, pc, stop, dumped, solver, feature_vars, fold_vars, slicer>>

memory_load ==
    /\ pc = "memory"
    /\ Len(log) < MaxMemoryOps
    /\ \E l \in Locations :
          LET ld == load_from_memory(work.state, l)
          IN  /\ work' = [work EXCEPT !.state = ld[2]]
              /\ log' = Append(log, [op |-> "load", loc |-> l, val |-> ld[1],
                                     hit |-> l \in DOMAIN work.state.memory,
                                     id_before |-> work.state.symbol_id,
                                     id_after |-> ld[2].symbol_id])
    /\ UNCHANGED <<options, slice_id, total, metadata, env, cur, pc, stop, dumped, solver, feature_vars, fold_vars, slicer>>

NextMemory == memory_store \/ memory_load

SpecMemory == InitMemory /\ [][NextMemory]_vars

\* ------------------------------------------------------------------------
\* Feasibility harness: the classification of execute_slice applied to a
\* path that returned properly with its target set, over every constraint
\* list of a small universe.  The engine itself never records a constraint,
\* because eval_operand_value is a stub and a branch condition is never a
\* Comparison.
\* ------------------------------------------------------------------------
MaxConstraints == 3

FeasibilityConds ==
    {Comparison("Sgt", Argument(0), IntConst(0)), Comparison("Slt", Argument(0), IntConst(0)),
     Comparison("Eq", Argument(0), IntConst(0)), Comparison("Sgt", Unknown, IntConst(0))}

ConstraintLists ==
    UNION {[1..n -> [cond : FeasibilityConds, branch : BOOLEAN]] : n \in 0..MaxConstraints}

InitFeasibility ==
    /\ options = [max_trace_per_slice |-> MaxTracePerSlice,
                  max_explored_trace_per_slice |-> MaxExploredTracePerSlice,
                  max_node_per_trace |-> MaxNodePerTrace]
    /\ slice_id = 0
    /\ total = MetaData_new
    /\ metadata = MetaData_new
    /\ env = [Environment_new(1) EXCEPT !.work_list = <<>>]
    /\ \E cs \in ConstraintLists :
          work = [block |-> 1,
                  state |-> [State_new(1) EXCEPT
                                !.stack = <<>>, !.block_trace = <<1>>,
                                !.trace = <<TraceNode(<<"Call", "target", <<Unknown>>>>, None,
                                                      <<1, 1>>),
                                            TraceNode(<<"Return", None>>, None, <<1, 2>>)>>,
                                !.target_node = Some(0), !.constraints = cs]]
    /\ cur = None
    /\ pc = "classify"
    /\ stop = "ret_entry"
    /\ dumped = <<>>
    /\ log = <<>>
    /\ solver = None
    /\ FeaturesIdle
    /\ FoldIdle

NextFeasibility == execute_slice_classify \/ execute_slice_return

SpecFeasibility == InitFeasibility /\ [][NextFeasibility]_vars

\* ------------------------------------------------------------------------
\* Feature extraction driver: FeatureExtractionContext::extract_features for
\* one target, in its two versions (analyzer/src/feature_extraction.rs and
\* new_analyzer/core/src/feature_extraction.rs).  A run is pass 1 (one step
\* per slice: list the trace directory, load the traces, feed them to init),
\* finalize, then pass 2: one task per slice lists the trace directory and
\* spawns one task per entry, and the tasks run in any order.  The driver is
\* run twice over the same traces directory; the features directory stays.
\* ------------------------------------------------------------------------
Drivers == {"analyzer", "core"}

\* the contents a trace file can have
TraceContents == {<<"target">>, <<"target", "free">>}

\* the traces directories the driver is run on: two slices, each holding the
\* trace files 0.json .. (n-1).json
TraceDirs ==
    LET dirs == UNION {[1..n -> TraceContents] : n \in 1..2}
    IN  {<<d0, d1>> : d0 \in dirs, d1 \in dirs}

\* FeatureExtractors::all, in order (one extractor of each kind)
AllExtractors == <<"ReturnValue", "ArgumentPrecondition3", "Causality">>

\* FeatureExtractor::filter for the target of the model, a function of fewer
\* than four parameters
filter(e) == e # "ArgumentPrecondition3"

Call(op, e, sid, file) == [op |-> op, extractor |-> e, slice_id |-> sid, file |-> file]

\* FeatureExtractors::extractors_for_target.  learned[e] is the state e built
\* in init, finalized[e] the number of finalize calls it got; calls is the
\* history of the calls made on the extractors
extractors_for_target ==
    LET names == SelectSeq(AllExtractors, filter)
        accepted == {names[i] : i \in DOMAIN names}
    IN  [names |-> names, learned |-> [e \in accepted |-> EmptyMap],
         finalized |-> [e \in accepted |-> 0], calls |-> <<>>]

\* FeatureExtractor::init of a deterministic extractor: it counts what it is
\* shown, whatever the order
extractor_init(learned, sid, num_traces, trace) ==
    LET key == <<sid, num_traces, trace.content>>
    IN  MapInsert(learned, key, IF key \in DOMAIN learned THEN learned[key] + 1 ELSE 1)

\* FeatureExtractor::extract of a deterministic extractor: a function of the
\* slice, the trace and the state init and finalize left
extractor_extract(e, learned, finalized, sid, trace) ==
    <<e, sid, trace.content, learned, finalized>>

\* FeatureExtractors::initialize
initialize(self, sid, num_traces, trace) ==
    [self EXCEPT
        !.learned = [e \in DOMAIN @ |-> extractor_init(@[e], sid, num_traces, trace)],
        !.calls = @ \o [i \in DOMAIN self.names |-> Call("init", self.names[i], sid, trace.file)]]

finalize_first_only(self) ==
    [self EXCEPT !.finalized[self.names[1]] = @ + 1,
                 !.calls = Append(@, Call("finalize", self.names[1], 0, 0))]

\* FeatureExtractors::finalize
finalize(self) ==
    [self EXCEPT
        !.finalized = [e \in DOMAIN @ |-> @[e] + 1],
        !.calls = @ \o [i \in DOMAIN self.names |-> Call("finalize", self.names[i], 0, 0)]]

\* FeatureExtractors::extract_features: the record keyed by extractor name
extract_features(self, sid, trace) ==
    [e \in DOMAIN self.learned |->
        extractor_extract(e, self.learned[e], self.finalized[e], sid, trace)]

\* fs::read_dir of the slice's trace directory: the file stems in any order
load_trace_file_paths(dirs, sid) ==
    LET n == Len(dirs[sid + 1])
    IN  {l \in [1..n -> 0..(n - 1)] : \A i, j \in 1..n : l[i] = l[j] => i = j}

\* load_trace; file is the stem of the file the trace was read from
load_trace(dirs, sid, file) == [file |-> file, content |-> dirs[sid + 1][file + 1]]

\* the trace_id a pass-2 task writes its record under: the stem parsed by
\* load_trace_file_paths in analyzer, the enumerate() index in core
feature_trace_id(drv, index, file) == IF drv = "analyzer" THEN file ELSE index

features_file_path(sid, tid) == <<"features", "target", sid, tid>>

\* for trace in traces { extractors.initialize(slice, num_traces, &trace) }
RECURSIVE initialize_traces(_, _, _, _)
initialize_traces(self, sid, num_traces, traces) ==
    IF traces = <<>> THEN self
    ELSE initialize_traces(initialize(self, sid, num_traces, Head(traces)), sid, num_traces,
                           Tail(traces))

EngineIdle ==
    /\ options = [max_trace_per_slice |-> MaxTracePerSlice,
                  max_explored_trace_per_slice |-> MaxExploredTracePerSlice,
                  max_node_per_trace |-> MaxNodePerTrace]
    /\ total = MetaData_new
    /\ metadata = MetaData_new
    /\ env = Environment_new(1)
    /\ work = NoWork
    /\ cur = None
    /\ stop = ""
    /\ dumped = <<>>
    /\ log = <<>>
    /\ solver = None

engine_vars == <<options, total, metadata, env, work, cur, stop, dumped, log, solver>>

InitFeatures ==
    /\ EngineIdle
    /\ driver \in Drivers
    /\ trace_dirs \in TraceDirs
    /\ extractors = extractors_for_target
    /\ slice_id = 0
    /\ pc = "pass1"
    /\ listed = {}
    /\ tasks = {}
    /\ features = EmptyMap
    /\ previous = None
    /\ FoldIdle

\* pass 1, one iteration of (0..num_slices).for_each
extract_features_init_slice ==
    /\ pc = "pass1"
    /\ \E paths \in load_trace_file_paths(trace_dirs, slice_id) :
          LET traces == [i \in DOMAIN paths |-> load_trace(trace_dirs, slice_id, paths[i])]
          IN  extractors' = initialize_traces(extractors, slice_id, Len(traces), traces)
    /\ slice_id' = slice_id + 1
    /\ pc' = IF slice_id + 1 = Len(trace_dirs) THEN "finalize" ELSE "pass1"
    /\ UNCHANGED <<engine_vars, driver, trace_dirs, listed, tasks, features, previous, fold_vars, slicer>>

extract_features_finalize ==
    /\ pc = "finalize"
    /\ extractors' = finalize(extractors)
    /\ pc' = "pass2"
    /\ UNCHANGED <<engine_vars, slice_id, driver, trace_dirs, listed, tasks, features, previous, fold_vars, slicer>>

\* pass 2, the task of one slice: create the directory, list the traces,
\* spawn one task per entry
extract_features_list ==
    /\ pc = "pass2"
    /\ \E sid \in 0..(Len(trace_dirs) - 1) :
          /\ sid \notin listed
          /\ \E paths \in load_trace_file_paths(trace_dirs, sid) :
                tasks' = tasks \cup {[slice_id |-> sid, index |-> i - 1, file |-> paths[i]] :
                                        i \in DOMAIN paths}
          /\ listed' = listed \cup {sid}
    /\ UNCHANGED <<engine_vars, slice_id, pc, driver, trace_dirs, extractors, features,
                   previous, fold_vars, slicer>>

\* pass 2, the task of one directory entry: load, extract, dump
extract_features_task ==
    /\ pc = "pass2"
    /\ \E t \in tasks :
          LET trace == load_trace(trace_dirs, t.slice_id, t.file)
              record == extract_features(extractors, t.slice_id, trace)
              trace_id == feature_trace_id(driver, t.index, t.file)
          IN  /\ features' = MapInsert(features, features_file_path(t.slice_id, trace_id),
                                       record)
              /\ extractors' =
                    [extractors EXCEPT !.calls =
                        @ \o [i \in DOMAIN extractors.names |->
                                Call("extract", extractors.names[i], t.slice_id, t.file)]]
              /\ tasks' = tasks \ {t}
    /\ UNCHANGED <<engine_vars, slice_id, pc, driver, trace_dirs, listed, previous, fold_vars, slicer>>

\* every task of pass 2 has run: extract_features returns
extract_features_return ==
    /\ pc = "pass2"
    /\ listed = 0..(Len(trace_dirs) - 1)
    /\ tasks = {}
    /\ pc' = "finished"
    /\ UNCHANGED <<engine_vars, slice_id, feature_vars, fold_vars, slicer>>

\* the driver is started a second time over the same directories
extract_features_again ==
    /\ pc = "finished"
    /\ previous = None
    /\ previous' = Some(features)
    /\ extractors' = extractors_for_target
    /\ slice_id' = 0
    /\ listed' = {}
    /\ pc' = "pass1"
    /\ UNCHANGED <<engine_vars, driver, trace_dirs, tasks, features, fold_vars, slicer>>

NextFeatures ==
    \/ extract_features_init_slice
    \/ extract_features_finalize
    \/ extract_features_list
    \/ extract_features_task
    \/ extract_features_return
    \/ extract_features_again

SpecFeatures == InitFeatures /\ [][NextFeatures]_vars

\* ------------------------------------------------------------------------
\* execute_slices as a fold (symbolic_execution.rs 1029-1040).  execute_slice
\* keeps its MetaData and its Environment in locals and reads the context
\* only, so a call is one step of the fold that yields a MetaData; results
\* holds the value of execute_slice(slices[k - 1], k - 1) at index k.  The
\* serial branch folds the whole input from MetaData::new(); the parallel
\* branch folds contiguous segments of the input, each from MetaData::new()
\* and in any interleaving, and reduces adjacent finished segments with
\* combine.  A segment may be empty: its accumulator is the identity the
\* reduction is allowed to insert.
\* ------------------------------------------------------------------------
MaxFoldSlices == 3
MaxFoldSplits == 2

\* the MetaData values drawn for the calls of execute_slice
MetaDatas ==
    {MetaData_new,
     incr_proper(MetaData_new),
     incr_no_target(incr_proper(incr_proper(MetaData_new))),
     incr_unreachable(incr_exceeding_length(incr_duplicated(incr_branch_explored(
        incr_path_unsat(MetaData_new)))))}

\* the ways of splitting n positions at up to MaxFoldSplits points
Splits(n) ==
    {b \in UNION {[1..k -> 0..n] : k \in 0..MaxFoldSplits} :
        \A i \in 1..(Len(b) - 1) : b[i] <= b[i + 1]}

\* one accumulator per segment, each starting from MetaData::new()
fold_segments(n, b) ==
    [i \in 1..(Len(b) + 1) |->
        [acc |-> MetaData_new,
         next |-> IF i = 1 THEN 1 ELSE b[i - 1] + 1,
         last |-> IF i = Len(b) + 1 THEN n ELSE b[i]]]

segment_done(p) == p.next > p.last

InitFold ==
    /\ options = [max_trace_per_slice |-> MaxTracePerSlice,
                  max_explored_trace_per_slice |-> MaxExploredTracePerSlice,
                  max_node_per_trace |-> MaxNodePerTrace]
    /\ slice_id = 0
    /\ total = MetaData_new
    /\ metadata = MetaData_new
    /\ env = Environment_new(1)
    /\ work = NoWork
    /\ cur = None
    /\ pc = "fold"
    /\ stop = ""
    /\ dumped = <<>>
    /\ log = <<>>
    /\ solver = None
    /\ FeaturesIdle
    /\ slicer = <<>>
    /\ results \in UNION {[1..n -> MetaDatas] : n \in 0..MaxFoldSlices}
    /\ use_serial \in BOOLEAN
    /\ \E b \in Splits(Len(results)) :
          /\ use_serial => b = <<>>
          /\ parts = fold_segments(Len(results), b)

fold_frame == <<options, slice_id, metadata, env, work, cur, stop, dumped, log, solver,
                feature_vars, use_serial, results, slicer>>

\* f = |meta, (slice_id, slice)| meta.combine(self.execute_slice(slice, slice_id))
execute_slices_fold ==
    /\ pc = "fold"
    /\ \E i \in DOMAIN parts :
          /\ ~segment_done(parts[i])
          /\ parts' = [parts EXCEPT ![i] =
                          [acc |-> combine(@.acc, results[@.next]),
                           next |-> @.next + 1,
                           last |-> @.last]]
    /\ UNCHANGED <<fold_frame, total, pc>>

\* .reduce(|| MetaData::new(), MetaData::combine) on two adjacent segments
execute_slices_reduce ==
    /\ pc = "fold"
    /\ ~use_serial
    /\ \E i \in 1..(Len(parts) - 1) :
          /\ segment_done(parts[i])
          /\ segment_done(parts[i + 1])
          /\ parts' = [j \in 1..(Len(parts) - 1) |->
                          IF j < i THEN parts[j]
                          ELSE IF j = i
                               THEN [parts[i] EXCEPT
                                        !.acc = combine(parts[i].acc, parts[i + 1].acc)]
                               ELSE parts[j + 1]]
    /\ UNCHANGED <<fold_frame, total, pc>>

\* the value of the if expression is the value of execute_slices
execute_slices_return ==
    /\ pc = "fold"
    /\ Len(parts) = 1
    /\ segment_done(parts[1])
    /\ total' = parts[1].acc
    /\ pc' = "folded"
    /\ UNCHANGED <<fold_frame, parts>>

NextFold ==
    \/ execute_slices_fold
    \/ execute_slices_reduce
    \/ execute_slices_return

SpecFold == InitFold /\ [][NextFold]_vars

\* ------------------------------------------------------------------------
\* Phi harness (transfer_phi_instr, symbolic_execution.rs 855-866).  Besides
\* the runs of the engine, a path is handed a phi right after the
\* terminator of any block of the function, listed among the phi's
\* incomings or not, or as its very first instruction: the cases in which
\* the unwraps of transfer_phi_instr fail.
\* ------------------------------------------------------------------------
InitPhi ==
    /\ options \in Options
    /\ slice_id = 0
    /\ total = MetaData_new
    /\ metadata = MetaData_new
    /\ pc = "exec"
    /\ stop = ""
    /\ dumped = <<>>
    /\ log = <<>>
    /\ solver = None
    /\ FeaturesIdle
    /\ FoldIdle
    /\ \E s \in 1..NumSlices : \E b \in DOMAIN Slices[s].blocks :
          /\ Slices[s].blocks[b][1].op = "Phi"
          /\ env = [Environment_new(s) EXCEPT !.work_list = <<>>]
          /\ cur = Some(<<b, 1>>)
          /\ \E prev \in {None} \cup {Some(x) : x \in DOMAIN Slices[s].blocks} :
                work = [block |-> b,
                        state |-> [State_new(s) EXCEPT
                            !.prev_block = prev,
                            !.block_trace = <<b>>,
                            !.trace = IF prev = None THEN <<>>
                                      ELSE <<TraceNode(<<"UnconditionalBr", FALSE>>, None,
                                                       <<Unwrap(prev),
                                                         Len(Slices[s].blocks[Unwrap(prev)])>>)>>]]

SpecPhi == (Init \/ InitPhi) /\ [][Next]_vars

\* ------------------------------------------------------------------------
\* Slicer batching (slicer.rs 153-167).  The edge list is the list of call
\* edges relevant_edges collected, distinct edge indices in collection
\* order.  num_batches divides in f32, which is exact for the lengths drawn
\* here; batches hands the list to slice::chunks, which panics on a chunk
\* size of zero and otherwise returns an iterator that yields the chunks one
\* at a time.  slicer holds the options and the edge list, the value
\* num_batches returned, the Chunks iterator and the chunks it has yielded.
\* ------------------------------------------------------------------------
MaxEdges == 5
MaxBatchSize == 3

\* (edges.len() as f32 / batch_size as f32).ceil() as u32 when batching, else 1
num_batches(opts, edges) ==
    IF opts.use_batch
    THEN (Len(edges) + opts.batch_size - 1) \div opts.batch_size
    ELSE 1

\* edges.chunks(batch_size) when batching, else edges.chunks(edges.len());
\* None is the panic of chunks on a chunk size of zero
batches(opts, edges) ==
    LET size == IF opts.use_batch THEN opts.batch_size ELSE Len(edges)
    IN IF size = 0 THEN None ELSE Some([v |-> edges, chunk_size |-> size])

\* Chunks::next: the first min(len, chunk_size) elements, the rest stays
Chunks_next(it) ==
    IF it.v = <<>>
    THEN <<None, it>>
    ELSE LET n == IF Len(it.v) < it.chunk_size THEN Len(it.v) ELSE it.chunk_size
         IN <<Some(SubSeq(it.v, 1, n)), [it EXCEPT !.v = SubSeq(@, n + 1, Len(@))]>>

InitSlicer ==
    /\ EngineIdle
    /\ slice_id = 0
    /\ pc = "batches"
    /\ FeaturesIdle
    /\ use_serial = TRUE
    /\ results = <<>>
    /\ parts = <<>>
    /\ \E n \in 0..MaxEdges, size \in 1..MaxBatchSize, batch \in BOOLEAN :
          slicer = [options |-> [use_batch |-> batch, batch_size |-> size],
                    edges |-> [k \in 1..n |-> k],
                    at |-> "start", num |-> 0, iter |-> None, yielded |-> <<>>]

slicer_frame == <<engine_vars, slice_id, pc, feature_vars, fold_vars>>

\* let n = slicer.num_batches(&edges); let chunks = slicer.batches(&edges);
slicer_batches ==
    /\ pc = "batches"
    /\ slicer.at = "start"
    /\ LET it == batches(slicer.options, slicer.edges)
       IN slicer' = [slicer EXCEPT
              !.num = num_batches(slicer.options, slicer.edges),
              !.iter = it,
              !.at = IF it = None THEN "panic" ELSE "iterating"]
    /\ UNCHANGED slicer_frame

\* one turn of a for loop over the chunks
slicer_next ==
    /\ pc = "batches"
    /\ slicer.at = "iterating"
    /\ LET r == Chunks_next(Unwrap(slicer.iter))
       IN slicer' = IF r[1] = None
                    THEN [slicer EXCEPT !.at = "finished"]
                    ELSE [slicer EXCEPT !.iter = Some(r[2]),
                                        !.yielded = Append(@, Unwrap(r[1]))]
    /\ UNCHANGED slicer_frame

NextSlicer ==
    \/ slicer_batches
    \/ slicer_next

SpecSlicer == InitSlicer /\ [][NextSlicer]_vars

\* ========================================================================
\* Properties
\* ========================================================================
SumOfCounters(m) ==
    m.proper_trace_count + m.path_unsat_trace_count + m.branch_explored_trace_count
    + m.duplicate_trace_count + m.no_target_trace_count + m.exceeding_length_trace_count
    + m.unreachable_trace_count

\* the 0-based trace indices of the Call nodes pushed for slice.instr
TargetCallNodes(st, s) ==
    {k \in 0..(Len(st.trace) - 1) :
        /\ st.trace[k + 1].instr = Slices[s].instr
        /\ st.trace[k + 1].semantics[1] = "Call"}

\* C1: in execute_slice, after every loop iteration and in the returned
\* MetaData, explored_trace_count is the sum of the seven other counters; the
\* accumulator that execute_slices builds with MetaData.combine from values
\* that satisfy the equality satisfies it too.
C1_ExploredIsSum ==
    /\ metadata.explored_trace_count = SumOfCounters(metadata)
    /\ total.explored_trace_count = SumOfCounters(total)

\* C1 witness: two slices were executed and combined, and paths without target
\* were counted among others
C1_Witness ==
    /\ pc = "done" /\ slice_id = 1
    /\ total.explored_trace_count >= 3
    /\ total.explored_trace_count > metadata.explored_trace_count
    /\ metadata.no_target_trace_count >= 1
    /\ metadata.proper_trace_count >= 1

\* C2: the MetaData of execute_slice never has more than max_trace_per_slice
\* proper traces nor more than max_explored_trace_per_slice + 1 explored ones,
\* and a Work is popped (and run) only while both counters are below their
\* budgets.
C2_Budgets ==
    /\ metadata.proper_trace_count <= options.max_trace_per_slice
    /\ metadata.explored_trace_count <= options.max_explored_trace_per_slice + 1
    /\ pc \in {"exec", "classify"} =>
          /\ metadata.explored_trace_count < options.max_explored_trace_per_slice
          /\ metadata.proper_trace_count < options.max_trace_per_slice

\* C2 witness: execute_slice returned because the proper budget was reached
\* while work was left
C2_Witness ==
    /\ pc = "done"
    /\ has_work(env)
    /\ metadata.proper_trace_count = options.max_trace_per_slice
    /\ metadata.explored_trace_count < options.max_explored_trace_per_slice

\* C3 (as claimed): every path counted proper has at most max_node_per_trace
\* trace nodes.
C3_AcceptedWithinNodeBudget ==
    \A k \in DOMAIN dumped : Len(dumped[k].state.trace) <= options.max_node_per_trace

\* C4 (as claimed): the first of two paths with equal block traces is counted
\* proper and the second duplicate, so no two accepted traces of a slice have
\* equal block traces.
C4_NoEqualAcceptedBlockTraces ==
    \A j, k \in DOMAIN dumped :
        j # k => ~equals(dumped[j].state.block_trace, dumped[k].state.block_trace)

LastStoreBefore(l, j) ==
    LET stores == {i \in 1..(j - 1) : log[i].op = "store" /\ log[i].loc = l}
    IN  IF stores = {} THEN 0 ELSE CHOOSE i \in stores : \A i2 \in stores : i2 <= i

\* C6 (as claimed): for every location, Unknown included, a load returns the
\* value of the last store to that location.
C6_ReadAfterWriteEveryLocation ==
    \A j \in DOMAIN log :
        (log[j].op = "load" /\ LastStoreBefore(log[j].loc, j) # 0)
            => log[j].val = log[LastStoreBefore(log[j].loc, j)].val

\* C6 (amended): for every location other than Location::Unknown a load returns
\* the value of the last store to that location; a load from Location::Unknown
\* returns Value::Unknown whatever was stored there.
C6_ReadAfterWrite ==
    \A j \in DOMAIN log :
        /\ (log[j].op = "load" /\ log[j].loc # LocUnknown
            /\ LastStoreBefore(log[j].loc, j) # 0)
              => log[j].val = log[LastStoreBefore(log[j].loc, j)].val
        /\ (log[j].op = "load" /\ log[j].loc = LocUnknown) => log[j].val = Unknown

\* C6 witness: a value was stored over an older one and then read back
C6_Witness ==
    /\ Len(log) = 3
    /\ log[1].op = "store" /\ log[2].op = "store" /\ log[3].op = "load"
    /\ log[1].loc = log[2].loc /\ log[2].loc = log[3].loc
    /\ log[1].val # log[2].val
    /\ log[3].loc # LocUnknown
    /\ log[3].val = log[2].val

\* C7: two consecutive loads of one location return the same value and the
\* second mints nothing; a load that misses mints Symbol(symbol_id), stores it
\* at the location and increments symbol_id by one.
C7_LazySymbolStable ==
    /\ \A j \in DOMAIN log :
          (j > 1 /\ log[j].op = "load" /\ log[j - 1].op = "load"
           /\ log[j].loc = log[j - 1].loc)
              => /\ log[j].val = log[j - 1].val
                 /\ log[j].id_after = log[j].id_before
    /\ \A j \in DOMAIN log :
          (log[j].op = "load" /\ log[j].loc # LocUnknown /\ ~log[j].hit)
              => /\ log[j].val = Symbol(log[j].id_before)
                 /\ log[j].id_after = log[j].id_before + 1
                 /\ j = Len(log) =>
                       /\ log[j].loc \in DOMAIN work.state.memory
                       /\ work.state.memory[log[j].loc] = log[j].val

\* C7 witness: a load missed and minted a symbol, and the next load of the same
\* location returned that symbol
C7_Witness ==
    /\ Len(log) >= 2
    /\ log[1].op = "load" /\ ~log[1].hit /\ log[1].loc # LocUnknown
    /\ log[2].op = "load" /\ log[2].loc = log[1].loc
    /\ log[2].val = Symbol(0)

\* C8: for every accepted trace, target_node is an index into the trace, the
\* node there is a Call node, and its func is the name of the callee of
\* slice.instr.
C8_TargetIndexesCalleeCall ==
    \A k \in DOMAIN dumped :
        LET st == dumped[k].state
        IN  /\ IsSome(st.target_node)
            /\ Unwrap(st.target_node) \in 0..(Len(st.trace) - 1)
            /\ st.trace[Unwrap(st.target_node) + 1].semantics[1] = "Call"
            /\ st.trace[Unwrap(st.target_node) + 1].semantics[2]
                  = Unwrap(InstrAt(env.slice, Slices[env.slice].instr).name)

\* C8 witness: an accepted trace whose target call is preceded by another call
C8_Witness ==
    \E k \in DOMAIN dumped :
        LET st == dumped[k].state
        IN  /\ Unwrap(st.target_node) >= 1
            /\ \E n \in 1..Unwrap(st.target_node) : st.trace[n].semantics[1] = "Call"

\* C9 (as claimed): every accepted trace holds exactly one Call node produced by
\* slice.instr, and target_node is its index.
C9_TargetCallExactlyOnce ==
    \A k \in DOMAIN dumped :
        LET st == dumped[k].state
        IN  /\ Cardinality(TargetCallNodes(st, env.slice)) = 1
            /\ TargetCallNodes(st, env.slice) = {Unwrap(st.target_node)}

\* C9 (amended): every accepted trace holds at least one Call node produced by
\* slice.instr, and target_node is the index of the first of them.
C9_TargetCallFirst ==
    \A k \in DOMAIN dumped :
        LET st == dumped[k].state
            nodes == TargetCallNodes(st, env.slice)
        IN  /\ nodes # {}
            /\ IsSome(st.target_node)
            /\ Unwrap(st.target_node) \in nodes
            /\ \A n \in nodes : Unwrap(st.target_node) <= n

\* C9 witness: an accepted trace that passes through slice.instr twice
C9_Witness ==
    \E k \in DOMAIN dumped :
        Cardinality(TargetCallNodes(dumped[k].state, env.slice)) >= 2

\* C10: while a path is executed, target_node, once set, keeps its value, and
\* the states cloned and enqueued by a step carry the target_node of the path
\* that forked them.
C10_TargetNodeNeverOverwritten ==
    [][pc = "exec" =>
          /\ IsSome(work.state.target_node)
                => work'.state.target_node = work.state.target_node
          /\ \A k \in (Len(env.work_list) + 1)..Len(env'.work_list) :
                env'.work_list[k].state.target_node = work.state.target_node]_vars

\* C10 witness: slice.instr was executed a second time on a path whose
\* target_node was set by the first execution
C10_Witness ==
    /\ pc = "exec"
    /\ IsSome(work.state.target_node)
    /\ Cardinality(TargetCallNodes(work.state, env.slice)) >= 2
    /\ \A n \in TargetCallNodes(work.state, env.slice) : Unwrap(work.state.target_node) <= n

\* the seven outcome counters of MetaData
OutcomeCounters ==
    {"proper_trace_count", "path_unsat_trace_count", "branch_explored_trace_count",
     "duplicate_trace_count", "no_target_trace_count", "exceeding_length_trace_count",
     "unreachable_trace_count"}

\* C11: the classification that ends a loop iteration of execute_slice adds one
\* to exactly one outcome counter and leaves the six others alone.  A path
\* without target_node goes to no_target whatever its finish_state; with a
\* target, ProperlyReturned goes to duplicate, proper or path_unsat,
\* BranchExplored to branch_explored, ExceedingMaxTraceLength to
\* exceeding_length and Unreachable to unreachable.
C11_OneCounterByTargetAndFinishState ==
    [][pc = "classify" =>
          LET st == work.state
              bumped == {c \in OutcomeCounters : metadata'[c] = metadata[c] + 1}
              kept == {c \in OutcomeCounters : metadata'[c] = metadata[c]}
              allowed ==
                  IF st.target_node = None THEN {"no_target_trace_count"}
                  ELSE CASE st.finish_state = "ProperlyReturned" ->
                                {"duplicate_trace_count", "proper_trace_count",
                                 "path_unsat_trace_count"}
                         [] st.finish_state = "BranchExplored" ->
                                {"branch_explored_trace_count"}
                         [] st.finish_state = "ExceedingMaxTraceLength" ->
                                {"exceeding_length_trace_count"}
                         [] st.finish_state = "Unreachable" ->
                                {"unreachable_trace_count"}
          IN  /\ Cardinality(bumped) = 1
              /\ bumped \cup kept = OutcomeCounters
              /\ bumped \subseteq allowed]_vars

\* C11 witness: a path that ran over the node budget before it reached the
\* target call was classified, and the one counter that moved is no_target
C11_Witness ==
    /\ pc = "loop"
    /\ stop = "exceeding"
    /\ metadata.explored_trace_count = 1
    /\ metadata.no_target_trace_count = 1
    /\ metadata.exceeding_length_trace_count = 0

\* is there a value of the symbolic leaf under which every constraint that
\* can be lowered has the truth value of the branch the path took
ConstraintsFeasible(cs) ==
    \E x \in SolverDomain :
        \A i \in DOMAIN cs :
            IsSome(into_z3_ast(cs[i].cond)) => (comparison_holds(cs[i].cond, x) <=> cs[i].branch)

\* C12: a ProperlyReturned path with target set that is no duplicate is
\* counted proper exactly when the solver answers Sat or Unknown and
\* path_unsat exactly when it answers Unsat; what the solver was asked is the
\* conjunction of the path's constraints, each as is when branch is true and
\* negated when it is false, those that cannot be lowered left out: an answer
\* of Sat means these have a model, an answer of Unsat that they have none.
C12_ProperIffSatOrUnknown ==
    [][pc = "classify" /\ solver_queried(work.state, env) =>
          /\ IsSome(solver')
          /\ LET answer == Unwrap(solver').result
                 feasible == ConstraintsFeasible(work.state.constraints)
             IN  /\ answer \in {"Sat", "Unknown", "Unsat"}
                 /\ answer = "Sat" => feasible
                 /\ answer = "Unsat" => ~feasible
                 /\ (metadata'.proper_trace_count = metadata.proper_trace_count + 1)
                        <=> answer \in {"Sat", "Unknown"}
                 /\ (metadata'.path_unsat_trace_count = metadata.path_unsat_trace_count + 1)
                        <=> answer = "Unsat"
                 /\ metadata'.proper_trace_count + metadata'.path_unsat_trace_count
                        = metadata.proper_trace_count + metadata.path_unsat_trace_count + 1]_vars

\* C12 witness: a path with a constraint that cannot be lowered and a
\* constraint taken on the false side was accepted on an answer of Unknown
C12_Witness ==
    /\ pc = "loop"
    /\ IsSome(solver)
    /\ Unwrap(solver).result = "Unknown"
    /\ metadata.proper_trace_count = 1
    /\ Len(dumped) = 1
    /\ Len(Unwrap(solver).asserted) < Len(dumped[1].state.constraints)
    /\ \E i \in DOMAIN Unwrap(solver).asserted : ~Unwrap(solver).asserted[i].positive

\* execute_slice of slice s has returned, run with budgets of at least t
\* accepted paths, e explored paths and n nodes per trace
SliceDone(s, t, e, n) ==
    /\ pc = "done"
    /\ env.slice = s
    /\ options.max_trace_per_slice >= t
    /\ options.max_explored_trace_per_slice >= e
    /\ options.max_node_per_trace >= n

\* C13: scenario S4.  For the slice whose entry branches on x > 0 and then on
\* x < 0 for the same x before it calls the target, execute_slice returns
\* path_unsat >= 1 and proper = 0.
C13_ContradictoryBranchesUnsat ==
    SliceDone(12, 1, 3, 5) =>
        /\ metadata.path_unsat_trace_count >= 1
        /\ metadata.proper_trace_count = 0

\* C14: scenario S2.  For the diamond (conditional branch to A or B, both
\* call the target function, both rejoin and return) with a
\* max_trace_per_slice that does not bind (two paths exist; 8 in the
\* scenario), execute_slice returns proper = 2, branch_explored = 0 and
\* duplicate = 0.
C14_DiamondTwoProper ==
    SliceDone(2, 2, 2, 4) \/ SliceDone(15, 2, 2, 4) =>
        /\ metadata.proper_trace_count = 2
        /\ metadata.branch_explored_trace_count = 0
        /\ metadata.duplicate_trace_count = 0

\* C14, amended: slice.instr is one of the two calls, so the path through
\* the other side never sets target_node: execute_slice returns proper = 1,
\* no_target = 1, branch_explored = 0 and duplicate = 0, whichever side the
\* target callsite is on.
C14_DiamondOneProperOneNoTarget ==
    SliceDone(2, 2, 2, 4) \/ SliceDone(15, 2, 2, 4) =>
        /\ metadata.explored_trace_count = 2
        /\ metadata.proper_trace_count = 1
        /\ metadata.no_target_trace_count = 1
        /\ metadata.branch_explored_trace_count = 0
        /\ metadata.duplicate_trace_count = 0

\* C14 witness: the diamond with the target callsite on the else side was
\* executed to the end; the accepted path is the one through the else side
C14_Witness ==
    /\ SliceDone(15, 2, 2, 4)
    /\ Len(dumped) = 1
    /\ dumped[1].state.block_trace = <<1, 3, 4>>
    /\ metadata.no_target_trace_count = 1

\* C15: scenario S3.  For a slice whose entry has a block that branches back
\* to itself, run with max_node_per_trace = 10, at least one explored path
\* ends ExceedingMaxTraceLength and no accepted trace has more than 10
\* nodes.  (In slices 3, 5 and 13 the target call is the first instruction,
\* so a path that ends ExceedingMaxTraceLength is counted exceeding_length.)
C15_SelfLoopExceedsAcceptedWithinTen ==
    \A s \in {3, 5, 13} :
        SliceDone(s, 2, 2, 10) /\ options.max_node_per_trace = 10 =>
            /\ metadata.exceeding_length_trace_count >= 1
            /\ \A k \in DOMAIN dumped : Len(dumped[k].state.trace) <= 10

\* C16: scenario S1.  For the slice whose entry is one call of the target
\* followed by ret, execute_slice returns explored = 1 and proper = 1; the
\* one accepted path has target_node = 0 and a trace of two nodes, Call then
\* Return.
C16_StraightLineCall ==
    SliceDone(1, 1, 1, 1) =>
        /\ metadata.explored_trace_count = 1
        /\ metadata.proper_trace_count = 1
        /\ Len(dumped) = 1
        /\ dumped[1].state.target_node = Some(0)
        /\ Len(dumped[1].state.trace) = 2
        /\ dumped[1].state.trace[1].semantics[1] = "Call"
        /\ dumped[1].state.trace[1].semantics[2] = "target"
        /\ dumped[1].state.trace[2].semantics[1] = "Return"

\* C16 witness: execute_slice returned for the straight-line slice with one
\* accepted path
C16_Witness ==
    /\ SliceDone(1, 1, 1, 1)
    /\ metadata.proper_trace_count = 1
    /\ Len(dumped) = 1

\* the callee names of the model that begin with "llvm."
BeginsWithIntrinsicPrefix(n) == n \in {"llvm.memcpy", "llvm.dbg.declare"}

\* C17: a call instruction is skipped (no trace node, the path's state with
\* its target_node, stack and memory and the environment with its call_id
\* unchanged, execution continues at the next instruction) exactly when its
\* callee has no name or a name that begins with "llvm."; every other call
\* appends one Call node that names the callee.
C17_SkippedIffUnnamedOrIntrinsic ==
    [][Dispatch("Call") =>
          LET instr == Unwrap(cur)
              name == InstrAt(env.slice, instr).name
              st == work.state
              n == Len(st.trace)
          IN  IF name = None \/ BeginsWithIntrinsicPrefix(Unwrap(name))
              THEN /\ work'.state = st
                   /\ env' = env
                   /\ cur' = next_instruction(env.slice, instr)
              ELSE /\ Len(work'.state.trace) = n + 1
                   /\ SubSeq(work'.state.trace, 1, n) = st.trace
                   /\ work'.state.trace[n + 1].semantics[1] = "Call"
                   /\ work'.state.trace[n + 1].semantics[2] = Unwrap(name)]_vars

\* C20: the k-th path of a slice that execute_slice counts proper (k from 0)
\* is handed to dump_json under trace id k, in the file trace_file_name gives
\* for (slice_id, k): the ids given out so far are exactly 0 .. proper - 1,
\* without gap or repeat, and a path that is not counted proper takes none.
C20_TraceIdIsProperIndex ==
    /\ Len(dumped) = metadata.proper_trace_count
    /\ \A k \in DOMAIN dumped :
          /\ dumped[k].trace_id = k - 1
          /\ dumped[k].path = trace_file_name("target", slice_id, k - 1)

\* C20 witness: two paths were counted proper after a path that was not
C20_Witness ==
    /\ Len(dumped) = 2
    /\ dumped[2].trace_id = 1
    /\ metadata.explored_trace_count = 3
    /\ metadata.unreachable_trace_count = 1

\* C19: two runs of the feature driver over the same slice and trace
\* directories, with deterministic extractors, leave the same feature files
\* with the same contents, whatever the order of the directory listings and
\* of the parallel tasks.
C19_SecondRunSameFeatures ==
    pc = "finished" /\ IsSome(previous) => features = Unwrap(previous)

\* the calls of kind op that extractor e received for trace file f of slice sid
CallsOf(op, e, sid, f) ==
    {i \in DOMAIN extractors.calls : extractors.calls[i] = Call(op, e, sid, f)}

\* the trace files of the target: <<slice_id, stem>>
TraceFiles ==
    UNION {{<<sid, f>> : f \in 0..(Len(trace_dirs[sid + 1]) - 1)} :
              sid \in 0..(Len(trace_dirs) - 1)}

\* C18: in a run of the feature driver for a target, the extractors that
\* filter accepts, and only they, are called: init once for every trace of
\* every slice, all of it before finalize; finalize once per extractor; no
\* extract before every finalize; and, when the run is over, extract once per
\* (slice_id, trace file), in whatever order the parallel tasks ran.
C18_InitThenFinalizeThenExtract ==
    LET calls == extractors.calls
        accepted == {AllExtractors[i] : i \in {j \in DOMAIN AllExtractors : filter(AllExtractors[j])}}
        rank(c) == CASE c.op = "init" -> 1 [] c.op = "finalize" -> 2 [] c.op = "extract" -> 3
        init_over == pc \in {"finalize", "pass2", "finished"}
        finalize_over == pc \in {"pass2", "finished"}
    IN  pc \in {"pass1", "finalize", "pass2", "finished"} =>
        /\ \A i \in DOMAIN calls : calls[i].extractor \in accepted
        /\ \A i, j \in DOMAIN calls : i < j => rank(calls[i]) <= rank(calls[j])
        /\ \A e \in accepted :
              /\ \A sf \in TraceFiles :
                    /\ Cardinality(CallsOf("init", e, sf[1], sf[2])) = (IF init_over THEN 1 ELSE
                            IF sf[1] < slice_id THEN 1 ELSE 0)
                    /\ Cardinality(CallsOf("extract", e, sf[1], sf[2])) <= 1
                    /\ pc = "finished" => Cardinality(CallsOf("extract", e, sf[1], sf[2])) = 1
                    /\ ~finalize_over => CallsOf("extract", e, sf[1], sf[2]) = {}
              /\ Cardinality(CallsOf("finalize", e, 0, 0)) = (IF finalize_over THEN 1 ELSE 0)
        /\ Len(calls) <= Cardinality(accepted) * (2 * Cardinality(TraceFiles) + 1)

\* C18 witness: a run is over in which the tasks of pass 2 ran in another
\* order than the traces were listed for pass 1
C18_Witness ==
    /\ pc = "finished"
    /\ Len(trace_dirs[1]) = 2
    /\ LET calls == extractors.calls
           first_init == CHOOSE i \in DOMAIN calls : calls[i].op = "init" /\
                            \A j \in DOMAIN calls : calls[j].op = "init" => i <= j
           first_extract == CHOOSE i \in DOMAIN calls : calls[i].op = "extract" /\
                            \A j \in DOMAIN calls : calls[j].op = "extract" => i <= j
       IN  <<calls[first_init].slice_id, calls[first_init].file>>
              # <<calls[first_extract].slice_id, calls[first_extract].file>>


\* the counters of MetaData
Counters ==
    {"proper_trace_count", "path_unsat_trace_count", "branch_explored_trace_count",
     "duplicate_trace_count", "no_target_trace_count", "exceeding_length_trace_count",
     "unreachable_trace_count", "explored_trace_count"}

RECURSIVE SumOfField(_, _, _)
SumOfField(rs, c, n) ==
    IF n = 0 THEN 0 ELSE SumOfField(rs, c, n - 1) + rs[n][c]

\* C21: execute_slices returns the field-wise sum of the results of
\* execute_slice over all positions of the input, with use_serial set or
\* unset and for every way the parallel fold splits the input into segments
\* and orders the folding and the reduction.
C21_FoldIsFieldwiseSum ==
    pc = "folded" =>
        /\ DOMAIN total = Counters
        /\ \A c \in Counters : total[c] = SumOfField(results, c, Len(results))

C21_Witness ==
    /\ pc = "folded"
    /\ ~use_serial
    /\ Len(results) >= 2
    /\ \A k \in DOMAIN results : results[k].explored_trace_count > 0

\* the MetaData values the fold holds: inputs, accumulators and result
FoldValues ==
    {results[k] : k \in DOMAIN results} \cup {parts[i].acc : i \in DOMAIN parts}
        \cup {total}

\* C22: combine is associative and commutative on all eight counters and
\* MetaData::new() is its identity on both sides.
C22_CombineMonoid ==
    \A a \in FoldValues :
        /\ combine(a, MetaData_new) = a
        /\ combine(MetaData_new, a) = a
        /\ \A b \in FoldValues :
              /\ combine(a, b) = combine(b, a)
              /\ \A c \in FoldValues :
                    combine(combine(a, b), c) = combine(a, combine(b, c))

C22_Witness ==
    /\ pc = "folded"
    /\ Cardinality({results[k] : k \in DOMAIN results} \ {MetaData_new}) >= 3
    /\ \E a \in FoldValues : \E c \in Counters : a[c] >= 2


\* execute_instr is about to dispatch the conditional branch at cur
AtCondBr ==
    /\ pc = "exec"
    /\ ~(Len(work.state.trace) > options.max_node_per_trace)
    /\ IsSome(cur)
    /\ InstrAt(env.slice, Unwrap(cur)).op = "CondBr"

ThenEdge == <<parent_block(Unwrap(cur)), InstrAt(env.slice, Unwrap(cur)).t>>

ElseEdge == <<parent_block(Unwrap(cur)), InstrAt(env.slice, Unwrap(cur)).e>>

\* st is base with one edge marked, one ConditionalBr node of direction br
\* appended and, when the condition is a Comparison, one constraint added
BranchTaken(base, st, edge, br, taken) ==
    /\ st.visited_branch = base.visited_branch \cup {edge}
    /\ Len(st.trace) = Len(base.trace) + 1
    /\ SubSeq(st.trace, 1, Len(base.trace)) = base.trace
    /\ LET node == st.trace[Len(st.trace)]
       IN  /\ node.semantics[1] = "ConditionalBr"
           /\ node.semantics[3] = br
           /\ node.result = None
           /\ node.instr = Unwrap(cur)
           /\ st.constraints =
                 IF node.semantics[2][1] = "Comparison"
                 THEN Append(base.constraints, [cond |-> node.semantics[2], branch |-> taken])
                 ELSE base.constraints
    /\ \A f \in DOMAIN base \ {"visited_branch", "trace", "constraints"} : st[f] = base[f]

\* the step of a conditional branch with both edges unvisited, the clone
\* being compared with base
ForkStep(base) ==
    /\ Len(env'.work_list) = Len(env.work_list) + 1
    /\ SubSeq(env'.work_list, 1, Len(env.work_list)) = env.work_list
    /\ LET else_work == env'.work_list[Len(env'.work_list)]
       IN  /\ else_work.block = ElseEdge[2]
           /\ ElseEdge \in else_work.state.visited_branch
           /\ ThenEdge \notin else_work.state.visited_branch
           /\ BranchTaken(base, else_work.state, ElseEdge, "Else", FALSE)
    /\ BranchTaken([work.state EXCEPT !.prev_block = Some(ThenEdge[1]),
                                     !.block_trace = Append(@, ThenEdge[2])],
                   work'.state, ThenEdge, "Then", TRUE)
    /\ pc' = "exec"
    /\ cur' = first_instruction(env.slice, ThenEdge[2])

BothUnvisited ==
    /\ AtCondBr
    /\ ThenEdge \notin work.state.visited_branch
    /\ ElseEdge \notin work.state.visited_branch

\* C23 as stated: the enqueued clone equals the state before the branch
\* plus the else constraint, the else edge and the else node.
C23_CloneIsStateBeforeBranch ==
    [][BothUnvisited => ForkStep(work.state)]_vars

\* C23: a conditional branch at B with both edges unvisited enqueues exactly
\* one Work (E, clone); the clone is the state with prev_block set to B plus
\* (C, false) when the condition is a Comparison, plus (B, E) in
\* visited_branch and not (B, T), plus one ConditionalBr Else node with
\* result None; the current path gets (C, true), (B, T), one ConditionalBr
\* Then node and continues at the first instruction of T.
C23_CloneIsStateAtBranch ==
    [][BothUnvisited =>
        ForkStep([work.state EXCEPT !.prev_block = Some(ThenEdge[1])])]_vars

C23_Witness ==
    /\ pc = "exec"
    /\ env.work_list # <<>>
    /\ work.state.trace # <<>>
    /\ LET clone == env.work_list[Len(env.work_list)].state
           node == work.state.trace[Len(work.state.trace)]
       IN  /\ Len(clone.trace) = Len(work.state.trace)
           /\ clone.trace[Len(clone.trace)].semantics[1] = "ConditionalBr"
           /\ clone.trace[Len(clone.trace)].semantics[3] = "Else"
           /\ node.semantics[1] = "ConditionalBr"
           /\ node.semantics[3] = "Then"
           /\ Len(work.state.block_trace) >= 2
           /\ clone.prev_block = work.state.prev_block

\* C24: a conditional branch whose two edges are both in visited_branch
\* stops the path with finish_state = BranchExplored; no trace node is
\* appended, no constraint added, no Work enqueued, no successor executed.
C24_BothVisitedStops ==
    [][(/\ AtCondBr
        /\ ThenEdge \in work.state.visited_branch
        /\ ElseEdge \in work.state.visited_branch)
       => /\ work'.state = [work.state EXCEPT !.finish_state = "BranchExplored",
                                              !.prev_block = Some(ThenEdge[1])]
          /\ env' = env
          /\ cur' = None
          /\ pc' = "classify"]_vars

C24_Witness ==
    /\ pc = "classify"
    /\ stop = "branch_explored"
    /\ work.state.finish_state = "BranchExplored"
    /\ \E b \in 1..3 : \E t \in 1..4 : \E e \in 1..4 :
          {<<b, t>>, <<b, e>>} \subseteq work.state.visited_branch /\ t # e


\* execute_instr is about to dispatch the switch at cur
AtSwitch ==
    /\ pc = "exec"
    /\ ~(Len(work.state.trace) > options.max_node_per_trace)
    /\ IsSome(cur)
    /\ InstrAt(env.slice, Unwrap(cur)).op = "Switch"

\* the Work items the step appended to the work-list
Enqueued == SubSeq(env'.work_list, Len(env.work_list) + 1, Len(env'.work_list))

\* C25: a switch at B enqueues one Work for every case successor whose edge
\* is not in visited_branch, each with a clone in which that edge is marked;
\* no case successor is enqueued twice by one execution of the switch; the
\* default successor is executed in the current path iff its edge is
\* unvisited, after marking it.
C25_SwitchEnqueuesEachCaseOnce ==
    [][AtSwitch =>
        LET i == InstrAt(env.slice, Unwrap(cur))
            B == parent_block(Unwrap(cur))
            unvisited == {i.cases[k] : k \in DOMAIN i.cases} \
                            {b \in 1..10 : <<B, b>> \in work.state.visited_branch}
        IN  /\ SubSeq(env'.work_list, 1, Len(env.work_list)) = env.work_list
            /\ {Enqueued[k].block : k \in DOMAIN Enqueued} = unvisited
            /\ \A k \in DOMAIN Enqueued :
                  <<B, Enqueued[k].block>> \in Enqueued[k].state.visited_branch
            /\ \A k, l \in DOMAIN Enqueued :
                  Enqueued[k].block = Enqueued[l].block => k = l
            /\ IF <<B, i.t>> \notin work.state.visited_branch
               THEN /\ <<B, i.t>> \in work'.state.visited_branch
                    /\ cur' = first_instruction(env.slice, i.t)
                    /\ pc' = "exec"
               ELSE cur' = None /\ pc' # "exec"]_vars


\* C26: a path handed back to the scheduler with finish_state =
\* ProperlyReturned ended by executing a Return in the entry frame; a path
\* that stopped for another reason (switch whose default edge is already
\* visited, block without a handled terminator, callee without a first
\* block) is not classified ProperlyReturned.
C26_ProperlyReturnedOnlyByEntryReturn ==
    (pc = "classify" /\ work.state.finish_state = "ProperlyReturned") => stop = "ret_entry"


\* execute_instr is about to dispatch the call at cur
AtCall ==
    /\ pc = "exec"
    /\ ~(Len(work.state.trace) > options.max_node_per_trace)
    /\ IsSome(cur)
    /\ InstrAt(env.slice, Unwrap(cur)).op = "Call"

\* the ids of the Call values bound in the frames of a state
CallIdsIn(st) ==
    UNION {{st.stack[d].memory[x][2] :
                x \in {y \in DOMAIN st.stack[d].memory : st.stack[d].memory[y][1] = "Call"}} :
           d \in DOMAIN st.stack}

\* the call ids in use in this Environment: the running path, the queued
\* paths and the accepted paths of the slice
UsedCallIds ==
    CallIdsIn(work.state)
        \cup UNION {CallIdsIn(env.work_list[k].state) : k \in DOMAIN env.work_list}
        \cup UNION {CallIdsIn(dumped[k].state) :
                        k \in {j \in DOMAIN dumped : dumped[j].slice_id = slice_id}}

\* C27: a call that is not skipped pushes exactly one frame with callsite
\* (node_id, instr), empty local memory and the evaluated arguments and
\* goes on at the callee's entry block iff the callee has a body and is in
\* slice.functions; otherwise the stack depth is unchanged, a call_id not
\* used before in this Environment is minted, Value::Call{id, func, args}
\* is bound to the call in the top frame and execution goes on at the next
\* instruction.
C27_DescendOrSummarize ==
    [][(AtCall /\ Len(work'.state.trace) = Len(work.state.trace) + 1) =>
        LET s == env.slice
            st == work.state
            n == Unwrap(InstrAt(s, Unwrap(cur)).name)
            node_id == Len(st.trace)
            args == work'.state.trace[node_id + 1].semantics[3]
            has_body == n \in DOMAIN Slices[s].first /\ IsSome(Slices[s].first[n])
        IN  /\ work'.state.trace[node_id + 1].semantics[1] = "Call"
            /\ Len(args) = InstrAt(s, Unwrap(cur)).nargs
            /\ IF has_body /\ n \in Slices[s].functions
               THEN /\ Len(work'.state.stack) = Len(st.stack) + 1
                    /\ SubSeq(work'.state.stack, 1, Len(st.stack)) = st.stack
                    /\ top(work'.state.stack) =
                          [function |-> n, instr |-> Some(<<node_id, Unwrap(cur)>>),
                           memory |-> EmptyMap, arguments |-> args]
                    /\ cur' = first_instruction(s, Unwrap(Slices[s].first[n]))
                    /\ env'.call_id = env.call_id
               ELSE /\ env.call_id \notin UsedCallIds
                    /\ env'.call_id = env.call_id + 1
                    /\ work'.state.stack =
                          [st.stack EXCEPT ![Len(st.stack)].memory =
                              MapInsert(@, Unwrap(cur), CallValue(env.call_id, n, args))]
                    /\ cur' = next_instruction(s, Unwrap(cur))]_vars

\* a path that descended into helper and returned, then summarized the call
\* of a function that has a body but is outside slice.functions
C27_Witness ==
    /\ pc = "exec"
    /\ Len(work.state.trace) >= 3
    /\ work.state.trace[1].semantics[1] = "Call"
    /\ work.state.trace[1].semantics[2] = "helper"
    /\ work.state.trace[2].semantics[1] = "Return"
    /\ \E x \in DOMAIN work.state.stack[1].memory :
          /\ work.state.stack[1].memory[x][1] = "Call"
          /\ work.state.stack[1].memory[x][3] = "other"
    /\ env.call_id >= 1


\* execute_instr is about to dispatch the return at cur
AtReturn ==
    /\ pc = "exec"
    /\ ~(Len(work.state.trace) > options.max_node_per_trace)
    /\ IsSome(cur)
    /\ InstrAt(env.slice, Unwrap(cur)).op = "Return"

\* C28: a return from a descended callee pops the top frame (the stack
\* depth decreases by exactly one); with callsite (node_id, call) and a
\* return value v, trace[node_id] is the Call node pushed for that call,
\* its result becomes v, the caller's frame binds call to v, and execution
\* goes on at the instruction after the call; with a void return the
\* result stays None and nothing is bound.
C28_ReturnFromCallee ==
    [][(AtReturn /\ IsSome(top(work.state.stack).instr)) =>
        LET s == env.slice
            st == work.state
            depth == Len(st.stack)
            node_id == Unwrap(top(st.stack).instr)[1]
            call == Unwrap(top(st.stack).instr)[2]
            val == work'.state.trace[Len(work'.state.trace)].semantics[2]
            node == work'.state.trace[node_id + 1]
        IN  /\ Len(work'.state.stack) = depth - 1
            /\ IsSome(val) = InstrAt(s, Unwrap(cur)).val
            /\ node.semantics = st.trace[node_id + 1].semantics
            /\ node.semantics[1] = "Call"
            /\ node.instr = call
            /\ IF IsSome(val)
               THEN /\ node.result = val
                    /\ work'.state.stack =
                          [SubSeq(st.stack, 1, depth - 1) EXCEPT ![depth - 1].memory =
                              MapInsert(@, call, Unwrap(val))]
               ELSE /\ node.result = None
                    /\ work'.state.stack = SubSeq(st.stack, 1, depth - 1)
            /\ cur' = next_instruction(s, call)
            /\ pc' = "exec"]_vars

\* back in the entry function after helper returned a value
C28_Witness ==
    /\ pc = "exec"
    /\ Len(work.state.stack) = 1
    /\ Len(work.state.trace) >= 3
    /\ work.state.trace[1].semantics[2] = "helper"
    /\ IsSome(work.state.trace[1].result)
    /\ work.state.trace[1].instr \in DOMAIN work.state.stack[1].memory
    /\ work.state.stack[1].memory[work.state.trace[1].instr] =
          Unwrap(work.state.trace[1].result)


IsPrefix(s, t) == Len(s) <= Len(t) /\ SubSeq(t, 1, Len(s)) = s

\* C29: within one path the trace and the constraint list are append-only:
\* a step leaves every existing node in place and in order, only the
\* result of a Call node may change; the nodes a step appends belong to the
\* instruction it executed; the trace and constraints of a state enqueued
\* at a fork extend the parent's trace and constraints at the fork.
C29_TraceAndConstraintsAppendOnly ==
    [][pc = "exec" =>
        LET st == work.state
            st2 == work'.state
        IN  /\ Len(st2.trace) >= Len(st.trace)
            /\ Len(st2.trace) <= Len(st.trace) + 1
            /\ \A k \in DOMAIN st.trace :
                  /\ st2.trace[k].semantics = st.trace[k].semantics
                  /\ st2.trace[k].instr = st.trace[k].instr
                  /\ \/ st2.trace[k].result = st.trace[k].result
                     \/ st.trace[k].semantics[1] = "Call" /\ st.trace[k].result = None
            /\ \A k \in (Len(st.trace) + 1)..Len(st2.trace) :
                  IsSome(cur) /\ st2.trace[k].instr = Unwrap(cur)
            /\ IsPrefix(st.constraints, st2.constraints)
            /\ \A k \in DOMAIN Enqueued :
                  /\ IsPrefix(st.trace, Enqueued[k].state.trace)
                  /\ IsPrefix(st.constraints, Enqueued[k].state.constraints)]_vars

\* the running path has gone on after a fork and had a Call node back-patched
C29_Witness ==
    /\ pc = "exec"
    /\ env.work_list # <<>>
    /\ LET clone == env.work_list[Len(env.work_list)].state
       IN  /\ Len(work.state.trace) > Len(clone.trace)
           /\ clone.trace # <<>>
           /\ IsPrefix(SubSeq(clone.trace, 1, Len(clone.trace) - 1), work.state.trace)
    /\ \E k \in DOMAIN work.state.trace :
          work.state.trace[k].semantics[1] = "Call" /\ IsSome(work.state.trace[k].result)

\* C30: once a clone is enqueued at a conditional branch or a switch, no
\* step of the running path changes it; it is only taken off the work-list
\* by the scheduler, and it is executed from exactly the state that was
\* enqueued.
C30_EnqueuedCloneUntouched ==
    [][/\ pc \in {"exec", "classify"} => IsPrefix(env.work_list, env'.work_list)
       /\ (pc = "loop" /\ pc' = "exec") =>
            /\ env.work_list # <<>>
            /\ env'.work_list = SubSeq(env.work_list, 1, Len(env.work_list) - 1)
            /\ work'.state = [env.work_list[Len(env.work_list)].state EXCEPT
                                 !.block_trace = Append(@, work'.block)]
            /\ work'.block = env.work_list[Len(env.work_list)].block]_vars

\* the running path has loaded, stored, pushed and popped a frame and had a
\* call back-patched while a clone waits in the work-list
C30_Witness ==
    /\ pc = "exec"
    /\ Len(env.work_list) = 1
    /\ Len(work.state.stack) = 1
    /\ DOMAIN work.state.memory # {}
    /\ \E k \in DOMAIN work.state.trace :
          work.state.trace[k].semantics[1] = "Call" /\ IsSome(work.state.trace[k].result)
    /\ LET clone == env.work_list[1].state
       IN  /\ DOMAIN clone.memory = {}
           /\ Len(clone.trace) < Len(work.state.trace)
           /\ DOMAIN clone.stack[1].memory \subseteq DOMAIN work.state.stack[1].memory
           /\ DOMAIN clone.stack[1].memory # DOMAIN work.state.stack[1].memory


\* C31: for every slice (cycles, unconditional self-loops and recursion
\* inside slice.functions included) and every setting of the three budgets,
\* each call of execute_block comes to an end and execute_slice returns.
C31_ExecuteSliceReturns ==
    /\ (pc = "exec") ~> (pc = "classify")
    /\ (pc = "loop") ~> (pc = "done")

\* a path that recursed until the node budget stopped it
C31_Witness ==
    /\ pc = "classify"
    /\ stop = "exceeding"
    /\ Len(work.state.stack) >= 4
    /\ options.max_node_per_trace = MaxNodePerTrace


\* a budget of execute_slice is reached
BudgetReached ==
    \/ metadata.explored_trace_count >= options.max_explored_trace_per_slice
    \/ metadata.proper_trace_count >= options.max_trace_per_slice

\* C32: the work-list is LIFO: execute_slice pops the most recently
\* enqueued Work, the first one popped being the entry block with the
\* initial state; when execute_slice returns the work-list is empty or a
\* budget is reached; hence with budgets never reached every enqueued Work
\* is popped and classified.
C32_LifoUntilEmptyOrBudget ==
    /\ [][(pc = "loop" /\ pc' = "exec") =>
            /\ env.work_list # <<>>
            /\ work'.block = env.work_list[Len(env.work_list)].block
            /\ work'.state = [env.work_list[Len(env.work_list)].state EXCEPT
                                 !.block_trace = Append(@, work'.block)]
            /\ env'.work_list = SubSeq(env.work_list, 1, Len(env.work_list) - 1)
            /\ metadata.explored_trace_count = 0 =>
                  /\ work'.block = Unwrap(first_block(env.slice, "entry"))
                  /\ env.work_list = <<Work_entry(env.slice)>>]_vars
    /\ [](pc = "done" => (env.work_list = <<>> \/ BudgetReached))
    /\ (pc = "loop") ~> (pc = "done" /\ (env.work_list = <<>> \/ BudgetReached))

\* execute_slice returned with budgets to spare after classifying the entry
\* Work and the Works its paths enqueued
C32_Witness ==
    /\ pc = "done"
    /\ env.work_list = <<>>
    /\ ~BudgetReached
    /\ metadata.explored_trace_count >= 2


\* C33: whenever execute_instr dispatches an instruction to a transfer
\* function the stack holds at least one frame: the bottom frame is the
\* entry frame (no callsite) and every frame above it has a callsite, so
\* transfer_ret_instr never pops an empty stack and top_mut never indexes
\* an empty one.
C33_StackNonEmptyWhileExecuting ==
    pc = "exec" =>
        /\ Len(work.state.stack) >= 1
        /\ work.state.stack[1].instr = None
        /\ \A d \in 2..Len(work.state.stack) : IsSome(work.state.stack[d].instr)

\* about to return from a descended callee
C33_Witness ==
    /\ pc = "exec"
    /\ IsSome(cur)
    /\ InstrAt(env.slice, Unwrap(cur)).op = "Return"
    /\ Len(work.state.stack) = 2
    /\ ~(Len(work.state.trace) > options.max_node_per_trace)


\* the trace indices of the nodes pushed by branches and switches
BranchNodes(st) ==
    {k \in DOMAIN st.trace :
        st.trace[k].semantics[1] \in {"ConditionalBr", "UnconditionalBr", "Switch"}}

\* execute_instr is about to dispatch the phi at cur
AtPhi ==
    /\ pc = "exec"
    /\ ~(Len(work.state.trace) > options.max_node_per_trace)
    /\ IsSome(cur)
    /\ InstrAt(env.slice, Unwrap(cur)).op = "Phi"

\* C34: a phi binds in the top frame the value of the incoming whose block
\* equals prev_block and appends no trace node; a phi executed while
\* prev_block is unset, or with no incoming for prev_block, aborts the
\* exploration instead of continuing; prev_block is the block of the most
\* recently executed branch or switch of the path.
C34_PhiBindsOrAborts ==
    /\ [][AtPhi =>
            LET st == work.state
                inc == InstrAt(env.slice, Unwrap(cur)).inc
            IN  IF st.prev_block # None /\ \E k \in DOMAIN inc : Some(inc[k]) = st.prev_block
                THEN /\ work'.state =
                          [st EXCEPT !.stack[Len(st.stack)].memory =
                              MapInsert(@, Unwrap(cur), Unknown)]
                     /\ cur' = next_instruction(env.slice, Unwrap(cur))
                     /\ pc' = "exec"
                ELSE /\ pc' = "panic"
                     /\ cur' = None
                     /\ work'.state = st]_vars
    /\ [](pc = "exec" =>
            IF BranchNodes(work.state) = {}
            THEN work.state.prev_block = None
            ELSE \E k \in BranchNodes(work.state) :
                    /\ \A l \in BranchNodes(work.state) : l <= k
                    /\ work.state.prev_block = Some(parent_block(work.state.trace[k].instr)))

\* a phi was bound after a conditional branch and an unconditional one
C34_Witness ==
    /\ pc = "exec"
    /\ IsSome(cur)
    /\ Unwrap(cur)[2] = 2
    /\ InstrAt(env.slice, <<Unwrap(cur)[1], 1>>).op = "Phi"
    /\ <<Unwrap(cur)[1], 1>> \in DOMAIN work.state.stack[1].memory
    /\ Cardinality(BranchNodes(work.state)) = 2

\* a phi with no incoming for prev_block aborted the exploration
C34_WitnessAbort ==
    /\ pc = "panic"
    /\ work.state.prev_block # None


\* the directed edges that leave the conditional branches of slice s
CondEdges(s) ==
    UNION {UNION {{<<b, Slices[s].blocks[b][k].t>>, <<b, Slices[s].blocks[b][k].e>>} :
                     k \in {j \in DOMAIN Slices[s].blocks[b] :
                               Slices[s].blocks[b][j].op = "CondBr"}} :
           b \in DOMAIN Slices[s].blocks}

\* the trace indices of the ConditionalBr nodes
CondNodes(st) == {k \in DOMAIN st.trace : st.trace[k].semantics[1] = "ConditionalBr"}

\* the edge a ConditionalBr node went along
EdgeOf(s, node) ==
    <<parent_block(node.instr),
      IF node.semantics[3] = "Then" THEN InstrAt(s, node.instr).t ELSE InstrAt(s, node.instr).e>>

\* C35: within one path every edge leaving a conditional branch is
\* traversed at most once and the default edge of a switch at most once;
\* so a trace holds at most as many ConditionalBr nodes as the slice has
\* distinct conditional-branch edges, whatever the node budget.
C35_EdgesTraversedOnce ==
    /\ [][pc = "exec" =>
            /\ work.state.visited_branch \subseteq work'.state.visited_branch
            /\ (AtCondBr /\ pc' = "exec") =>
                  \E edge \in {ThenEdge, ElseEdge} :
                     /\ edge \notin work.state.visited_branch
                     /\ edge \in work'.state.visited_branch
                     /\ cur' = first_instruction(env.slice, edge[2])
                     /\ EdgeOf(env.slice, work'.state.trace[Len(work'.state.trace)]) = edge
            /\ (AtSwitch /\ pc' = "exec") =>
                  LET edge == <<parent_block(Unwrap(cur)), InstrAt(env.slice, Unwrap(cur)).t>>
                  IN  /\ edge \notin work.state.visited_branch
                      /\ edge \in work'.state.visited_branch]_vars
    /\ [](pc \in {"exec", "classify"} =>
            LET st == work.state
            IN  /\ \A k, l \in CondNodes(st) :
                      EdgeOf(env.slice, st.trace[k]) = EdgeOf(env.slice, st.trace[l]) => k = l
                /\ \A k \in CondNodes(st) : EdgeOf(env.slice, st.trace[k]) \in st.visited_branch
                /\ Cardinality(CondNodes(st)) <= Cardinality(CondEdges(env.slice)))

\* a path that went along every conditional-branch edge of a loop and met
\* the branch a third time
C35_Witness ==
    /\ pc = "classify"
    /\ stop = "branch_explored"
    /\ Cardinality(CondNodes(work.state)) = Cardinality(CondEdges(env.slice))
    /\ Cardinality(CondNodes(work.state)) >= 2


\* the engine descends into function n of slice s
Descended(s, n) ==
    /\ n \in DOMAIN Slices[s].first
    /\ IsSome(Slices[s].first[n])
    /\ n \in Slices[s].functions

\* in state st of slice s a Call node has a result only if its callee is
\* descended into and a Return with a value was executed after the call
CallResultsFromReturns(s, st) ==
    \A k \in DOMAIN st.trace :
        (st.trace[k].semantics[1] = "Call" /\ st.trace[k].result # None) =>
            /\ Descended(s, st.trace[k].semantics[2])
            /\ \E l \in (k + 1)..Len(st.trace) :
                  /\ st.trace[l].semantics[1] = "Return"
                  /\ st.trace[l].semantics[2] = st.trace[k].result

\* C36: the result of a Call node whose callee is summarized stays None for
\* the rest of the path; a Call node has a result only after a descended
\* callee returned a value; so on every accepted trace whose target callee
\* is outside slice.functions or has no body the target node's result is
\* None.
C36_SummarizedCallHasNoResult ==
    /\ pc \in {"exec", "classify"} => CallResultsFromReturns(env.slice, work.state)
    /\ \A k \in DOMAIN env.work_list :
          CallResultsFromReturns(env.slice, env.work_list[k].state)
    /\ \A k \in DOMAIN dumped :
          LET st == dumped[k].state
              target == st.trace[Unwrap(st.target_node) + 1]
          IN  /\ CallResultsFromReturns(env.slice, st)
              /\ ~Descended(env.slice, target.semantics[2]) => target.result = None

\* an accepted trace with a summarized target call and a back-patched call
C36_Witness ==
    \E k \in DOMAIN dumped :
        LET st == dumped[k].state
            target == st.trace[Unwrap(st.target_node) + 1]
        IN  /\ ~Descended(env.slice, target.semantics[2])
            /\ target.result = None
            /\ \E l \in DOMAIN st.trace :
                  st.trace[l].semantics[1] = "Call" /\ st.trace[l].result # None


\* C37: when the driver has finished, the feature record under
\* features/<target>/<slice_id>/<trace_id> is the one extracted from the
\* trace file <trace_id>.json of that slice, for every order of the
\* directory listing, and no two tasks wrote the same feature path: every
\* trace file has a record of its own.
C37_FeatureOfSameTraceFile ==
    pc = "finished" =>
        /\ DOMAIN features = {features_file_path(tf[1], tf[2]) : tf \in TraceFiles}
        /\ \A tf \in TraceFiles :
              features[features_file_path(tf[1], tf[2])] =
                 extract_features(extractors, tf[1], load_trace(trace_dirs, tf[1], tf[2]))


RECURSIVE ConcatChunks(_)
ConcatChunks(cs) ==
    IF cs = <<>> THEN <<>> ELSE Head(cs) \o ConcatChunks(Tail(cs))

\* C38: for every edge list and every batch_size >= 1, with or without
\* use_batch, batches never fails, and once its iterator is exhausted it has
\* yielded exactly num_batches(edges) chunks whose concatenation in order is
\* the edge list, every chunk but possibly the last holding batch_size edges
\* when use_batch is set.
C38_BatchesPartitionEdges ==
    pc = "batches" =>
        /\ slicer.at # "panic"
        /\ slicer.at = "finished" =>
              /\ Len(slicer.yielded) = slicer.num
              /\ ConcatChunks(slicer.yielded) = slicer.edges
              /\ slicer.options.use_batch =>
                    \A i \in 1..(Len(slicer.yielded) - 1) :
                        Len(slicer.yielded[i]) = slicer.options.batch_size

====
